---- MODULE Spec2Model ----
(***************************************************************************)
(* A state-machine model of the SNES core: the 65c816 interpreter          *)
(* (Core/CPU/CPU65c816.cpp) and the address decoder it runs on             *)
(* (Core/Memory/Memory.cpp).                                               *)
(*                                                                         *)
(* Representation.  A byte array (std::vector<uint8>) is a record          *)
(* [size, fill, data]: `data` holds the cells that differ from `fill`.     *)
(* Addresses are kept modulo 2^24, the width Memory::read and              *)
(* Memory::write keep of them.  The operators that model the private       *)
(* methods of CPU65c816 take the machine `m` (the registers and the        *)
(* arrays) and return the machine after the call; a call that returns a    *)
(* value leaves it in m.val, and every bus access is appended to m.bus.    *)
(***************************************************************************)
EXTENDS Integers, Sequences, FiniteSets, TLC

VARIABLES
    registers,    \* CPU65c816::registers
    totalCycles,  \* CPU65c816::totalCycles
    wram,         \* Memory::wram
    sram,         \* Memory::sram
    rom,          \* Memory::rom
    cycles,       \* what the last executeInstruction returned
    last,         \* the last call: [call, arg, value]
    prev,         \* the registers before the last call
    busLog,       \* the bus accesses of the last call, in order
    start,        \* the registers the current run started from
    steps,        \* executeInstruction calls of the current run: those made
                  \* since the last reset, set-up, setFlag or setMemory
    calls,        \* calls the host has made since the set-up
    pending,      \* the interrupt kinds the host has raised
    memory,       \* CPU65c816::memory is the host's Memory (TRUE) or nullptr (FALSE)
    hostCalls     \* setFlag and setMemory calls the host has made since the set-up

vars == <<registers, totalCycles, wram, sram, rom, cycles, last, prev, busLog,
          start, steps, calls, pending, memory, hostCalls>>

(***************************************************************************)
(* Integer helpers: the C++ operators &, |, ^ on unsigned values.          *)
(***************************************************************************)
RECURSIVE BitAnd(_, _)
BitAnd(a, b) ==
    IF a = 0 \/ b = 0 THEN 0
    ELSE (a % 2) * (b % 2) + 2 * BitAnd(a \div 2, b \div 2)

RECURSIVE BitOr(_, _)
BitOr(a, b) ==
    IF a = 0 THEN b
    ELSE IF b = 0 THEN a
    ELSE (IF a % 2 = 1 \/ b % 2 = 1 THEN 1 ELSE 0) + 2 * BitOr(a \div 2, b \div 2)

RECURSIVE BitXor(_, _)
BitXor(a, b) ==
    IF a = 0 THEN b
    ELSE IF b = 0 THEN a
    ELSE ((a + b) % 2) + 2 * BitXor(a \div 2, b \div 2)

\* ~x on a uint8 operand, truncated to 8 bits (and to 16 bits)
Not8(x) == 255 - (x % 256)
Not16(x) == 65535 - (x % 65536)

\* static_cast<uint8>, static_cast<uint16>, and the 24 bits an address keeps
\* With([x \in {e} |-> body]) is body with x standing for the value of e: the
\* way the operators below name the result of one step before taking the next
With(f) == f[CHOOSE x \in DOMAIN f : TRUE]

U8(x) == x % 256
U16(x) == x % 65536
U24(x) == x % 16777216

\* static_cast<int8>(byte): the signed value of a byte
S8(x) == IF x % 256 >= 128 THEN (x % 256) - 256 ELSE x % 256

\* the status flags (CPU65c816.hpp, enum StatusFlag)
FLAG_CARRY == 1
FLAG_ZERO == 2
FLAG_IRQ_DISABLE == 4
FLAG_DECIMAL == 8
FLAG_INDEX_WIDTH == 16
FLAG_MEMORY_WIDTH == 32
FLAG_OVERFLOW == 64
FLAG_NEGATIVE == 128

(***************************************************************************)
(* Byte arrays.                                                            *)
(***************************************************************************)
EmptyData == [i \in {} |-> 0]

\* std::vector<uint8>(size, fill)
Vector(size, fill) == [size |-> size, fill |-> fill, data |-> EmptyData]

\* vec[i].  Reading past the end of the array is undefined in C++: -1 stands for
\* every outcome of it, none of which is a byte of the array
Cell(vec, i) ==
    IF i \in DOMAIN vec.data THEN vec.data[i]
    ELSE IF i >= 0 /\ i < vec.size THEN vec.fill
    ELSE -1

\* vec[i] = v
SetCell(vec, i, v) ==
    [vec EXCEPT !.data = IF v = vec.fill
                         THEN [j \in (DOMAIN @) \ {i} |-> @[j]]
                         ELSE (i :> v) @@ @]

WRAM_SIZE == 131072
SRAM_SIZE == 32768

(***************************************************************************)
(* Memory (Core/Memory/Memory.cpp).  `mem` is any record with the fields   *)
(* wram, sram and rom.                                                     *)
(***************************************************************************)
getRegion(address) ==
    With([bank \in {(address \div \h10000) % \h100} |->
    With([offset \in {address % \h10000} |->
        IF bank <= \h3F \/ (bank >= \h80 /\ bank <= \hBF)
        THEN IF offset < \h2000 THEN "REGION_WRAM"
             ELSE IF offset >= \h2000 /\ offset < \h6000 THEN "REGION_HARDWARE"
             ELSE IF offset >= \h6000 /\ offset < \h8000 THEN "REGION_SRAM"
             ELSE "REGION_ROM"
        ELSE IF bank = \h7E \/ bank = \h7F THEN "REGION_WRAM"
        ELSE "REGION_ROM"])])

\* address & (size - 1) with size a size_t: for an empty array the mask is all ones
MaskBySize(address, size) ==
    IF size = 0 THEN address ELSE BitAnd(address, size - 1)

\* a ROM index taken from the 16-bit offset alone
romIndex_OffsetOnly(mem, address) == MaskBySize(address % \h10000, mem.rom.size)

\* the index into rom that a ROM-region access uses
romIndex(mem, address) == MaskBySize(address, mem.rom.size)

\* the index into sram that a Save-RAM access uses (offset - 0x6000 is not negative)
sramIndex(mem, address) == MaskBySize((address % \h10000) - \h6000, mem.sram.size)

\* readMapped without the bound check of the ROM arm
readMapped_Unchecked(mem, address) ==
    With([region \in {getRegion(address)} |->
    With([bank \in {(address \div \h10000) % \h100} |->
    With([offset \in {address % \h10000} |->
        CASE region = "REGION_WRAM" ->
               IF bank = \h7E \/ bank = \h7F
               THEN With([wramAddr \in {(bank % 2) * \h10000 + offset} |->
                        IF wramAddr < mem.wram.size THEN Cell(mem.wram, wramAddr) ELSE \hFF])
               ELSE IF offset < \h2000 THEN Cell(mem.wram, offset) ELSE \hFF
          [] region = "REGION_ROM" ->
               With([romAddr \in {romIndex(mem, address)} |->
                   Cell(mem.rom, romAddr)])
          [] region = "REGION_SRAM" ->
               With([sramAddr \in {sramIndex(mem, address)} |->
                   IF sramAddr < mem.sram.size THEN Cell(mem.sram, sramAddr) ELSE \hFF])
          [] region = "REGION_HARDWARE" -> \hFF
          [] OTHER -> \hFF])])])

readMapped(mem, address) ==
    With([region \in {getRegion(address)} |->
    With([bank \in {(address \div \h10000) % \h100} |->
    With([offset \in {address % \h10000} |->
        CASE region = "REGION_WRAM" ->
               IF bank = \h7E \/ bank = \h7F
               THEN With([wramAddr \in {(bank % 2) * \h10000 + offset} |->
                        IF wramAddr < mem.wram.size THEN Cell(mem.wram, wramAddr) ELSE \hFF])
               ELSE IF offset < \h2000 THEN Cell(mem.wram, offset) ELSE \hFF
          [] region = "REGION_ROM" ->
               With([romAddr \in {romIndex(mem, address)} |->
                   IF romAddr < mem.rom.size THEN Cell(mem.rom, romAddr) ELSE \hFF])
          [] region = "REGION_SRAM" ->
               With([sramAddr \in {sramIndex(mem, address)} |->
                   IF sramAddr < mem.sram.size THEN Cell(mem.sram, sramAddr) ELSE \hFF])
          [] region = "REGION_HARDWARE" -> \hFF
          [] OTHER -> \hFF])])])

\* writeMapped with a ROM region that stores what is written to it
writeMapped_RomStores(mem, address, value) ==
    With([region \in {getRegion(address)} |->
    With([bank \in {(address \div \h10000) % \h100} |->
    With([offset \in {address % \h10000} |->
        CASE region = "REGION_WRAM" ->
               IF bank = \h7E \/ bank = \h7F
               THEN With([wramAddr \in {(bank % 2) * \h10000 + offset} |->
                        IF wramAddr < mem.wram.size
                        THEN [mem EXCEPT !.wram = SetCell(@, wramAddr, value)]
                        ELSE mem])
               ELSE IF offset < \h2000
                    THEN [mem EXCEPT !.wram = SetCell(@, offset, value)]
                    ELSE mem
          [] region = "REGION_SRAM" ->
               With([sramAddr \in {sramIndex(mem, address)} |->
                   IF sramAddr < mem.sram.size
                   THEN [mem EXCEPT !.sram = SetCell(@, sramAddr, value)]
                   ELSE mem])
          [] region = "REGION_HARDWARE" -> mem
          [] region = "REGION_ROM" ->
               With([romAddr \in {romIndex(mem, address)} |->
                   IF romAddr < mem.rom.size
                   THEN [mem EXCEPT !.rom = SetCell(@, romAddr, value)]
                   ELSE mem])
          [] OTHER -> mem])])])

\* writeMapped with the low Work RAM window of an odd bank stored in the upper 64 KiB
writeMapped_BankedLow(mem, address, value) ==
    With([region \in {getRegion(address)} |->
    With([bank \in {(address \div \h10000) % \h100} |->
    With([offset \in {address % \h10000} |->
        CASE region = "REGION_WRAM" ->
               IF bank = \h7E \/ bank = \h7F
               THEN With([wramAddr \in {(bank % 2) * \h10000 + offset} |->
                        IF wramAddr < mem.wram.size
                        THEN [mem EXCEPT !.wram = SetCell(@, wramAddr, value)]
                        ELSE mem])
               ELSE IF offset < \h2000
                    THEN [mem EXCEPT !.wram = SetCell(@, (bank % 2) * \h10000 + offset, value)]
                    ELSE mem
          [] region = "REGION_SRAM" ->
               With([sramAddr \in {sramIndex(mem, address)} |->
                   IF sramAddr < mem.sram.size
                   THEN [mem EXCEPT !.sram = SetCell(@, sramAddr, value)]
                   ELSE mem])
          [] region = "REGION_HARDWARE" -> mem
          [] OTHER -> mem])])])

writeMapped(mem, address, value) ==
    With([region \in {getRegion(address)} |->
    With([bank \in {(address \div \h10000) % \h100} |->
    With([offset \in {address % \h10000} |->
        CASE region = "REGION_WRAM" ->
               IF bank = \h7E \/ bank = \h7F
               THEN With([wramAddr \in {(bank % 2) * \h10000 + offset} |->
                        IF wramAddr < mem.wram.size
                        THEN [mem EXCEPT !.wram = SetCell(@, wramAddr, value)]
                        ELSE mem])
               ELSE IF offset < \h2000
                    THEN [mem EXCEPT !.wram = SetCell(@, offset, value)]
                    ELSE mem
          [] region = "REGION_SRAM" ->
               With([sramAddr \in {sramIndex(mem, address)} |->
                   IF sramAddr < mem.sram.size
                   THEN [mem EXCEPT !.sram = SetCell(@, sramAddr, value)]
                   ELSE mem])
          [] region = "REGION_HARDWARE" -> mem
          [] OTHER -> mem])])])

\* Memory::read, Memory::write
MemoryRead(mem, address) == readMapped(mem, U24(address))
MemoryWrite(mem, address, value) == writeMapped(mem, U24(address), value)

(***************************************************************************)
(* CPU65c816 (Core/CPU/CPU65c816.cpp).  The machine m has the fields of    *)
(* CPU65c816::Registers (A, X, Y, SP, PC, P, DBR, PBR, D, E), the arrays   *)
(* of the attached Memory (wram, sram, rom), val and bus.                  *)
(***************************************************************************)
getFlag(m, flag) == BitAnd(m.P, flag) # 0

setFlag(m, flag, value) ==
    [m EXCEPT !.P = IF value THEN BitOr(@, flag) ELSE BitAnd(@, Not8(flag))]

isMemory8Bit(m) == BitAnd(m.P, FLAG_MEMORY_WIDTH) # 0
isIndex8Bit(m) == BitAnd(m.P, FLAG_INDEX_WIDTH) # 0

\* the value the last call returned
Ret(m, v) == [m EXCEPT !.val = v]

\* every access is logged as <<"R" or "W", address, byte>>
read8(m, address) ==
    IF m.memory
    THEN With([value \in {MemoryRead(m, address)} |->
             [m EXCEPT !.val = value, !.bus = Append(@, <<"R", U24(address), value>>)]])
    ELSE Ret(m, 0)

read16(m, address) ==
    With([m1 \in {read8(m, address)} |->
    With([m2 \in {read8(m1, address + 1)} |->
        Ret(m2, BitOr(m2.val * \h100, m1.val))])])

write8(m, address, value) ==
    IF m.memory
    THEN [MemoryWrite(m, address, U8(value))
             EXCEPT !.bus = Append(@, <<"W", U24(address), U8(value)>>)]
    ELSE m

write16(m, address, value) ==
    write8(write8(m, address, BitAnd(value, \hFF)),
           address + 1, BitAnd(value \div \h100, \hFF))

fetchByte(m) ==
    With([address \in {BitOr(m.PBR * \h10000, m.PC)} |->
    With([m1 \in {read8(m, address)} |->
        [m1 EXCEPT !.PC = U16(m.PC + 1)]])])

fetchWord(m) ==
    With([m1 \in {fetchByte(m)} |->
    With([m2 \in {fetchByte(m1)} |->
        Ret(m2, BitOr(m2.val * \h100, m1.val))])])

push8(m, value) ==
    With([m1 \in {write8(m, m.SP, value)} |->
    With([m2 \in {[m1 EXCEPT !.SP = U16(m.SP - 1)]} |->
        IF m2.E THEN [m2 EXCEPT !.SP = BitOr(\h0100, BitAnd(@, \hFF))] ELSE m2])])

push16(m, value) ==
    push8(push8(m, BitAnd(value \div \h100, \hFF)), BitAnd(value, \hFF))

pull8(m) ==
    With([m1 \in {[m EXCEPT !.SP = U16(m.SP + 1)]} |->
    With([m2 \in {IF m1.E THEN [m1 EXCEPT !.SP = BitOr(\h0100, BitAnd(@, \hFF))] ELSE m1} |->
        read8(m2, m2.SP)])])

pull16(m) ==
    With([m1 \in {pull8(m)} |->
    With([m2 \in {pull8(m1)} |->
        Ret(m2, BitOr(m2.val * \h100, m1.val))])])

updateNZ8(m, value) ==
    setFlag(setFlag(m, FLAG_ZERO, value = 0),
            FLAG_NEGATIVE, BitAnd(value, \h80) # 0)

updateNZ16(m, value) ==
    setFlag(setFlag(m, FLAG_ZERO, value = 0),
            FLAG_NEGATIVE, BitAnd(value, \h8000) # 0)

\* the low byte of A replaced, the high byte kept: (A & 0xFF00) | value
SetLowA(m, value) == [m EXCEPT !.A = BitOr(BitAnd(@, \hFF00), value)]

(***************************************************************************)
(* Addressing modes: each leaves the effective address in m.val.           *)
(***************************************************************************)
getAddress_Immediate(m) ==
    With([address \in {BitOr(m.PBR * \h10000, m.PC)} |->
        Ret([m EXCEPT !.PC = U16(@ + (IF isMemory8Bit(m) THEN 1 ELSE 2))], address)])

getAddress_Absolute(m) ==
    With([m1 \in {fetchWord(m)} |->
        Ret(m1, BitOr(m1.DBR * \h10000, m1.val))])

\* int16 address = offset + X: the sum converted to a signed 16-bit value
S16(x) == IF x % \h10000 >= \h8000 THEN (x % \h10000) - \h10000 ELSE x % \h10000

\* (hi | s) for a uint32 hi and an int16 s, which is sign-extended to 32 bits
\* before the OR; the result is given modulo 2^24
OrSignExtended(hi, s) ==
    IF s < 0 THEN BitOr(U24(hi), \hFF0000 + U16(s)) ELSE BitOr(U24(hi), s)

getAddress_AbsoluteX(m) ==
    With([m1 \in {fetchWord(m)} |->
    With([address \in {S16(m1.val + m1.X)} |->
        Ret(m1, OrSignExtended(m1.DBR * \h10000, address))])])

getAddress_AbsoluteY(m) ==
    With([m1 \in {fetchWord(m)} |->
    With([address \in {U16(m1.val + m1.Y)} |->
        Ret(m1, BitOr(m1.DBR * \h10000, address))])])

getAddress_Direct(m) ==
    With([m1 \in {fetchByte(m)} |->
        Ret(m1, m1.D + m1.val)])

getAddress_DirectX(m) ==
    With([m1 \in {fetchByte(m)} |->
        Ret(m1, m1.D + m1.val + BitAnd(m1.X, \hFF))])

getAddress_DirectY(m) ==
    With([m1 \in {fetchByte(m)} |->
        Ret(m1, m1.D + m1.val + BitAnd(m1.Y, \hFF))])

getAddress_IndirectX(m) ==
    With([m1 \in {fetchByte(m)} |->
    With([address \in {U16(m1.D + m1.val + BitAnd(m1.X, \hFF))} |->
        read16(m1, address)])])

getAddress_IndirectY(m) ==
    With([m1 \in {fetchByte(m)} |->
    With([m2 \in {read16(m1, m1.D + m1.val)} |->
        Ret(m2, m2.val + m2.Y)])])

(***************************************************************************)
(* Loads, stores, transfers.                                               *)
(***************************************************************************)
op_LDA(m, address) ==
    IF isMemory8Bit(m)
    THEN With([m1 \in {read8(m, address)} |-> updateNZ8(SetLowA(m1, m1.val), m1.val)])
    ELSE With([m1 \in {read16(m, address)} |-> updateNZ16([m1 EXCEPT !.A = m1.val], m1.val)])

op_LDX(m, address) ==
    IF isIndex8Bit(m)
    THEN With([m1 \in {read8(m, address)} |-> updateNZ8([m1 EXCEPT !.X = m1.val], m1.val)])
    ELSE With([m1 \in {read16(m, address)} |-> updateNZ16([m1 EXCEPT !.X = m1.val], m1.val)])

op_LDY(m, address) ==
    IF isIndex8Bit(m)
    THEN With([m1 \in {read8(m, address)} |-> updateNZ8([m1 EXCEPT !.Y = m1.val], m1.val)])
    ELSE With([m1 \in {read16(m, address)} |-> updateNZ16([m1 EXCEPT !.Y = m1.val], m1.val)])

op_STA(m, address) ==
    IF isMemory8Bit(m) THEN write8(m, address, BitAnd(m.A, \hFF))
    ELSE write16(m, address, m.A)

op_STX(m, address) ==
    IF isIndex8Bit(m) THEN write8(m, address, BitAnd(m.X, \hFF))
    ELSE write16(m, address, m.X)

op_STY(m, address) ==
    IF isIndex8Bit(m) THEN write8(m, address, BitAnd(m.Y, \hFF))
    ELSE write16(m, address, m.Y)

op_NOP(m) == m

op_TAX(m) ==
    IF isIndex8Bit(m)
    THEN With([m1 \in {[m EXCEPT !.X = BitAnd(m.A, \hFF)]} |->
             updateNZ8(m1, BitAnd(m1.X, \hFF))])
    ELSE With([m1 \in {[m EXCEPT !.X = m.A]} |-> updateNZ16(m1, m1.X)])

op_TAY(m) ==
    IF isIndex8Bit(m)
    THEN With([m1 \in {[m EXCEPT !.Y = BitAnd(m.A, \hFF)]} |->
             updateNZ8(m1, BitAnd(m1.Y, \hFF))])
    ELSE With([m1 \in {[m EXCEPT !.Y = m.A]} |-> updateNZ16(m1, m1.Y)])

\* TXA that copies all of X whatever the accumulator width
op_TXA_WholeX(m) ==
    With([m1 \in {[m EXCEPT !.A = m.X]} |->
        IF isMemory8Bit(m) THEN updateNZ8(m1, BitAnd(m1.A, \hFF)) ELSE updateNZ16(m1, m1.A)])

op_TXA(m) ==
    IF isMemory8Bit(m)
    THEN With([m1 \in {SetLowA(m, BitAnd(m.X, \hFF))} |-> updateNZ8(m1, BitAnd(m1.A, \hFF))])
    ELSE With([m1 \in {[m EXCEPT !.A = m.X]} |-> updateNZ16(m1, m1.A)])

op_TYA(m) ==
    IF isMemory8Bit(m)
    THEN With([m1 \in {SetLowA(m, BitAnd(m.Y, \hFF))} |-> updateNZ8(m1, BitAnd(m1.A, \hFF))])
    ELSE With([m1 \in {[m EXCEPT !.A = m.Y]} |-> updateNZ16(m1, m1.A)])

op_TSX(m) ==
    With([m1 \in {[m EXCEPT !.X = m.SP]} |->
        IF isIndex8Bit(m1) THEN updateNZ8(m1, BitAnd(m1.X, \hFF)) ELSE updateNZ16(m1, m1.X)])

\* TXS that sets N and Z as TSX does
op_TXS_UpdatesNZ(m) ==
    With([m1 \in {[m EXCEPT !.SP = m.X]} |->
        IF isIndex8Bit(m) THEN updateNZ8(m1, BitAnd(m1.X, \hFF)) ELSE updateNZ16(m1, m1.X)])

op_TXS(m) == [m EXCEPT !.SP = m.X]

op_TCD(m) == With([m1 \in {[m EXCEPT !.D = m.A]} |-> updateNZ16(m1, m1.D)])

op_TDC(m) == With([m1 \in {[m EXCEPT !.A = m.D]} |-> updateNZ16(m1, m1.A)])

op_TCS(m) == [m EXCEPT !.SP = m.A]

op_TSC(m) == With([m1 \in {[m EXCEPT !.A = m.SP]} |-> updateNZ16(m1, m1.A)])

(***************************************************************************)
(* Stack instructions.                                                     *)
(***************************************************************************)
op_PHA(m) ==
    IF isMemory8Bit(m) THEN push8(m, BitAnd(m.A, \hFF)) ELSE push16(m, m.A)

op_PHX(m) ==
    IF isIndex8Bit(m) THEN push8(m, BitAnd(m.X, \hFF)) ELSE push16(m, m.X)

op_PHY(m) ==
    IF isIndex8Bit(m) THEN push8(m, BitAnd(m.Y, \hFF)) ELSE push16(m, m.Y)

op_PHP(m) == push8(m, m.P)

op_PHD(m) == push16(m, m.D)

op_PHB(m) == push8(m, m.DBR)

op_PHK(m) == push8(m, m.PBR)

op_PLA(m) ==
    IF isMemory8Bit(m)
    THEN With([m1 \in {pull8(m)} |-> updateNZ8(SetLowA(m1, m1.val), m1.val)])
    ELSE With([m1 \in {pull16(m)} |->
         With([m2 \in {[m1 EXCEPT !.A = m1.val]} |->
             updateNZ16(m2, m2.A)])])

op_PLX(m) ==
    IF isIndex8Bit(m)
    THEN With([m1 \in {pull8(m)} |->
         With([m2 \in {[m1 EXCEPT !.X = m1.val]} |->
             updateNZ8(m2, BitAnd(m2.X, \hFF))])])
    ELSE With([m1 \in {pull16(m)} |->
         With([m2 \in {[m1 EXCEPT !.X = m1.val]} |->
             updateNZ16(m2, m2.X)])])

op_PLY(m) ==
    IF isIndex8Bit(m)
    THEN With([m1 \in {pull8(m)} |->
         With([m2 \in {[m1 EXCEPT !.Y = m1.val]} |->
             updateNZ8(m2, BitAnd(m2.Y, \hFF))])])
    ELSE With([m1 \in {pull16(m)} |->
         With([m2 \in {[m1 EXCEPT !.Y = m1.val]} |->
             updateNZ16(m2, m2.Y)])])

op_PLP(m) ==
    With([m1 \in {pull8(m)} |->
    With([m2 \in {[m1 EXCEPT !.P = m1.val]} |->
        IF m2.E THEN [m2 EXCEPT !.P = BitOr(@, \h30)] ELSE m2])])

op_PLD(m) ==
    With([m1 \in {pull16(m)} |->
    With([m2 \in {[m1 EXCEPT !.D = m1.val]} |->
        updateNZ16(m2, m2.D)])])

op_PLB(m) ==
    With([m1 \in {pull8(m)} |->
    With([m2 \in {[m1 EXCEPT !.DBR = m1.val]} |->
        updateNZ8(m2, m2.DBR)])])

(***************************************************************************)
(* Arithmetic.  A uint16 or uint32 `result` that C++ computes from a       *)
(* difference of promoted ints is kept here as that (possibly negative)    *)
(* int d: its low 8 or 16 bits are d mod 2^8 or 2^16, and its borrow bit   *)
(* (bit 8 of the uint16, bit 16 of the uint32) is set exactly when d < 0.  *)
(***************************************************************************)
\* the overflow rule of subtraction used for addition
checkOverflow8_OperandsDiffer(a, b, result) ==
    BitAnd(BitAnd(BitXor(a, b), BitXor(a, result)), \h80) # 0

checkOverflow8(a, b, result) ==
    BitAnd(BitAnd(BitXor(a, result), BitXor(b, result)), \h80) # 0

checkOverflow16(a, b, result) ==
    BitAnd(BitAnd(BitXor(a, result), BitXor(b, result)), \h8000) # 0

\* the 8-bit body of op_ADC (its decimal and binary branches are the same statements)
adc8(m1, operand) ==
    With([a \in {BitAnd(m1.A, \hFF)} |->
    With([carry \in {IF getFlag(m1, FLAG_CARRY) THEN 1 ELSE 0} |->
    With([result \in {a + operand + carry} |->
    With([m2 \in {setFlag(m1, FLAG_CARRY, result > \hFF)} |->
    With([result8 \in {BitAnd(result, \hFF)} |->
    With([m3 \in {setFlag(m2, FLAG_OVERFLOW, checkOverflow8(a, operand, result8))} |->
        updateNZ8(SetLowA(m3, result8), result8)])])])])])])

\* the 16-bit body of op_ADC
adc16(m1, operand) ==
    With([a \in {m1.A} |->
    With([carry \in {IF getFlag(m1, FLAG_CARRY) THEN 1 ELSE 0} |->
    With([result \in {a + operand + carry} |->
    With([m2 \in {setFlag(m1, FLAG_CARRY, result > \hFFFF)} |->
    With([result16 \in {BitAnd(result, \hFFFF)} |->
    With([m3 \in {setFlag(m2, FLAG_OVERFLOW, checkOverflow16(a, operand, result16))} |->
        updateNZ16([m3 EXCEPT !.A = result16], result16)])])])])])])

op_ADC(m, address) ==
    IF isMemory8Bit(m)
    THEN With([m1 \in {read8(m, address)} |->
             IF getFlag(m1, FLAG_DECIMAL) THEN adc8(m1, m1.val) ELSE adc8(m1, m1.val)])
    ELSE With([m1 \in {read16(m, address)} |->
             IF getFlag(m1, FLAG_DECIMAL) THEN adc16(m1, m1.val) ELSE adc16(m1, m1.val)])

\* the 8-bit body of op_SBC
sbc8(m1, operand) ==
    With([a \in {BitAnd(m1.A, \hFF)} |->
    With([carry \in {IF getFlag(m1, FLAG_CARRY) THEN 1 ELSE 0} |->
    With([result \in {U16(a - operand - (1 - carry))} |->
    With([m2 \in {setFlag(m1, FLAG_CARRY, BitAnd(result, \h100) = 0)} |->
    With([result8 \in {BitAnd(result, \hFF)} |->
    With([m3 \in {setFlag(m2, FLAG_OVERFLOW,
                      BitAnd(BitAnd(BitXor(a, operand), BitXor(a, result8)), \h80) # 0)} |->
        updateNZ8(SetLowA(m3, result8), result8)])])])])])])

\* the 16-bit body of op_SBC without the borrow taken from the carry flag
sbc16_NoBorrow(m1, operand) ==
    With([a \in {m1.A} |->
    With([d \in {a - operand} |->
    With([m2 \in {setFlag(m1, FLAG_CARRY, d >= 0)} |->
    With([result16 \in {U16(d)} |->
    With([m3 \in {setFlag(m2, FLAG_OVERFLOW,
                      BitAnd(BitAnd(BitXor(a, operand), BitXor(a, result16)), \h8000) # 0)} |->
        updateNZ16([m3 EXCEPT !.A = result16], result16)])])])])])

\* the 16-bit body of op_SBC
sbc16(m1, operand) ==
    With([a \in {m1.A} |->
    With([carry \in {IF getFlag(m1, FLAG_CARRY) THEN 1 ELSE 0} |->
    With([d \in {a - operand - (1 - carry)} |->
    With([m2 \in {setFlag(m1, FLAG_CARRY, d >= 0)} |->
    With([result16 \in {U16(d)} |->
    With([m3 \in {setFlag(m2, FLAG_OVERFLOW,
                      BitAnd(BitAnd(BitXor(a, operand), BitXor(a, result16)), \h8000) # 0)} |->
        updateNZ16([m3 EXCEPT !.A = result16], result16)])])])])])])

op_SBC(m, address) ==
    IF isMemory8Bit(m)
    THEN With([m1 \in {read8(m, address)} |->
             IF getFlag(m1, FLAG_DECIMAL) THEN sbc8(m1, m1.val) ELSE sbc8(m1, m1.val)])
    ELSE With([m1 \in {read16(m, address)} |->
             IF getFlag(m1, FLAG_DECIMAL) THEN sbc16(m1, m1.val) ELSE sbc16(m1, m1.val)])

(***************************************************************************)
(* Increments and decrements.                                              *)
(***************************************************************************)
op_INX(m) ==
    IF isIndex8Bit(m)
    THEN With([m1 \in {[m EXCEPT !.X = BitAnd(m.X + 1, \hFF)]} |->
             updateNZ8(m1, BitAnd(m1.X, \hFF))])
    ELSE With([m1 \in {[m EXCEPT !.X = BitAnd(m.X + 1, \hFFFF)]} |-> updateNZ16(m1, m1.X)])

op_INY(m) ==
    IF isIndex8Bit(m)
    THEN With([m1 \in {[m EXCEPT !.Y = BitAnd(m.Y + 1, \hFF)]} |->
             updateNZ8(m1, BitAnd(m1.Y, \hFF))])
    ELSE With([m1 \in {[m EXCEPT !.Y = BitAnd(m.Y + 1, \hFFFF)]} |-> updateNZ16(m1, m1.Y)])

op_DEX(m) ==
    IF isIndex8Bit(m)
    THEN With([m1 \in {[m EXCEPT !.X = U8(m.X - 1)]} |-> updateNZ8(m1, BitAnd(m1.X, \hFF))])
    ELSE With([m1 \in {[m EXCEPT !.X = U16(m.X - 1)]} |-> updateNZ16(m1, m1.X)])

op_DEY(m) ==
    IF isIndex8Bit(m)
    THEN With([m1 \in {[m EXCEPT !.Y = U8(m.Y - 1)]} |-> updateNZ8(m1, BitAnd(m1.Y, \hFF))])
    ELSE With([m1 \in {[m EXCEPT !.Y = U16(m.Y - 1)]} |-> updateNZ16(m1, m1.Y)])

op_INC_A(m) ==
    IF isMemory8Bit(m)
    THEN With([value \in {U8(BitAnd(m.A, \hFF) + 1)} |-> updateNZ8(SetLowA(m, value), value)])
    ELSE With([m1 \in {[m EXCEPT !.A = BitAnd(m.A + 1, \hFFFF)]} |-> updateNZ16(m1, m1.A)])

op_DEC_A(m) ==
    IF isMemory8Bit(m)
    THEN With([value \in {U8(BitAnd(m.A, \hFF) - 1)} |-> updateNZ8(SetLowA(m, value), value)])
    ELSE With([m1 \in {[m EXCEPT !.A = U16(m.A - 1)]} |-> updateNZ16(m1, m1.A)])

\* INC of memory that at 16 bits writes the low byte back before it reads the
\* high byte
op_INC_ByteWise(m, address) ==
    IF isMemory8Bit(m)
    THEN With([m1 \in {read8(m, address)} |->
         With([value \in {BitAnd(m1.val + 1, \hFF)} |->
             updateNZ8(write8(m1, address, value), value)])])
    ELSE With([m1 \in {read8(m, address)} |->
         With([lo \in {BitAnd(m1.val + 1, \hFF)} |->
         With([m2 \in {read8(write8(m1, address, lo), address + 1)} |->
         With([hi \in {BitAnd(m2.val + (IF lo = 0 THEN 1 ELSE 0), \hFF)} |->
             updateNZ16(write8(m2, address + 1, hi), hi * \h100 + lo)])])])])

op_INC(m, address) ==
    IF isMemory8Bit(m)
    THEN With([m1 \in {read8(m, address)} |->
         With([value \in {BitAnd(m1.val + 1, \hFF)} |->
             updateNZ8(write8(m1, address, value), value)])])
    ELSE With([m1 \in {read16(m, address)} |->
         With([value \in {BitAnd(m1.val + 1, \hFFFF)} |->
             updateNZ16(write16(m1, address, value), value)])])

op_DEC(m, address) ==
    IF isMemory8Bit(m)
    THEN With([m1 \in {read8(m, address)} |->
         With([value \in {U8(m1.val - 1)} |->
             updateNZ8(write8(m1, address, value), value)])])
    ELSE With([m1 \in {read16(m, address)} |->
         With([value \in {U16(m1.val - 1)} |->
             updateNZ16(write16(m1, address, value), value)])])

(***************************************************************************)
(* Logic and compares.                                                     *)
(***************************************************************************)
op_AND(m, address) ==
    IF isMemory8Bit(m)
    THEN With([m1 \in {read8(m, address)} |->
         With([result \in {BitAnd(BitAnd(m1.A, \hFF), m1.val)} |->
             updateNZ8(SetLowA(m1, result), result)])])
    ELSE With([m1 \in {read16(m, address)} |->
         With([m2 \in {[m1 EXCEPT !.A = BitAnd(m1.A, m1.val)]} |->
             updateNZ16(m2, m2.A)])])

op_ORA(m, address) ==
    IF isMemory8Bit(m)
    THEN With([m1 \in {read8(m, address)} |->
         With([result \in {BitOr(BitAnd(m1.A, \hFF), m1.val)} |->
             updateNZ8(SetLowA(m1, result), result)])])
    ELSE With([m1 \in {read16(m, address)} |->
         With([m2 \in {[m1 EXCEPT !.A = BitOr(m1.A, m1.val)]} |->
             updateNZ16(m2, m2.A)])])

op_EOR(m, address) ==
    IF isMemory8Bit(m)
    THEN With([m1 \in {read8(m, address)} |->
         With([result \in {BitXor(BitAnd(m1.A, \hFF), m1.val)} |->
             updateNZ8(SetLowA(m1, result), result)])])
    ELSE With([m1 \in {read16(m, address)} |->
         With([m2 \in {[m1 EXCEPT !.A = BitXor(m1.A, m1.val)]} |->
             updateNZ16(m2, m2.A)])])

\* compare that sets carry and negative and leaves the zero flag as it was
compare8_KeepsZero(m1, reg, operand) ==
    With([result \in {U16(reg - operand)} |->
    With([m2 \in {setFlag(m1, FLAG_CARRY, result < \h100)} |->
        setFlag(m2, FLAG_NEGATIVE, BitAnd(result, \h80) # 0)])])

\* the flag updates the three compares share: reg - operand at 8 bits
compare8(m1, reg, operand) ==
    With([result \in {U16(reg - operand)} |->
    With([m2 \in {setFlag(m1, FLAG_CARRY, result < \h100)} |->
    With([m3 \in {setFlag(m2, FLAG_ZERO, BitAnd(result, \hFF) = 0)} |->
        setFlag(m3, FLAG_NEGATIVE, BitAnd(result, \h80) # 0)])])])

\* the 16-bit compare with the carry of a signed comparison
compare16_SignedCarry(m1, reg, operand) ==
    With([d \in {reg - operand} |->
    With([m2 \in {setFlag(m1, FLAG_CARRY, S16(reg) >= S16(operand))} |->
    With([m3 \in {setFlag(m2, FLAG_ZERO, U16(d) = 0)} |->
        setFlag(m3, FLAG_NEGATIVE, BitAnd(U16(d), \h8000) # 0)])])])

\* reg - operand at 16 bits
compare16(m1, reg, operand) ==
    With([d \in {reg - operand} |->
    With([m2 \in {setFlag(m1, FLAG_CARRY, d >= 0)} |->
    With([m3 \in {setFlag(m2, FLAG_ZERO, U16(d) = 0)} |->
        setFlag(m3, FLAG_NEGATIVE, BitAnd(U16(d), \h8000) # 0)])])])

op_CMP(m, address) ==
    IF isMemory8Bit(m)
    THEN With([m1 \in {read8(m, address)} |-> compare8(m1, BitAnd(m1.A, \hFF), m1.val)])
    ELSE With([m1 \in {read16(m, address)} |-> compare16(m1, m1.A, m1.val)])

op_CPX(m, address) ==
    IF isIndex8Bit(m)
    THEN With([m1 \in {read8(m, address)} |-> compare8(m1, BitAnd(m1.X, \hFF), m1.val)])
    ELSE With([m1 \in {read16(m, address)} |-> compare16(m1, m1.X, m1.val)])

op_CPY(m, address) ==
    IF isIndex8Bit(m)
    THEN With([m1 \in {read8(m, address)} |-> compare8(m1, BitAnd(m1.Y, \hFF), m1.val)])
    ELSE With([m1 \in {read16(m, address)} |-> compare16(m1, m1.Y, m1.val)])

(***************************************************************************)
(* Branches, jumps, subroutines.                                           *)
(***************************************************************************)
\* branch with the offset byte added as an unsigned number
branch_Unsigned(m, condition) ==
    With([m1 \in {fetchByte(m)} |->
        IF condition THEN [m1 EXCEPT !.PC = U16(m1.PC + m1.val)] ELSE m1])

branch(m, condition) ==
    With([m1 \in {fetchByte(m)} |->
    With([offset \in {S8(m1.val)} |->
        IF condition THEN [m1 EXCEPT !.PC = U16(m1.PC + offset)] ELSE m1])])

op_BEQ(m) == branch(m, getFlag(m, FLAG_ZERO))
op_BNE(m) == branch(m, ~getFlag(m, FLAG_ZERO))
op_BCS(m) == branch(m, getFlag(m, FLAG_CARRY))
op_BCC(m) == branch(m, ~getFlag(m, FLAG_CARRY))
op_BMI(m) == branch(m, getFlag(m, FLAG_NEGATIVE))
op_BPL(m) == branch(m, ~getFlag(m, FLAG_NEGATIVE))
op_BVS(m) == branch(m, getFlag(m, FLAG_OVERFLOW))
op_BVC(m) == branch(m, ~getFlag(m, FLAG_OVERFLOW))

op_JMP(m, address) ==
    [m EXCEPT !.PC = BitAnd(address, \hFFFF),
              !.PBR = BitAnd(address \div \h10000, \hFF)]

op_JSR(m, address) ==
    With([returnAddress \in {U16(m.PC - 1)} |->
    With([m1 \in {push16(m, returnAddress)} |->
        [m1 EXCEPT !.PC = BitAnd(address, \hFFFF)]])])

op_RTS(m) ==
    With([m1 \in {pull16(m)} |->
        [m1 EXCEPT !.PC = U16(m1.val + 1)]])

op_RTI(m) ==
    With([m1 \in {pull8(m)} |->
    With([m2 \in {[m1 EXCEPT !.P = m1.val]} |->
    With([m3 \in {IF m2.E THEN [m2 EXCEPT !.P = BitOr(@, \h30)] ELSE m2} |->
    With([m4 \in {pull16(m3)} |->
    With([m5 \in {[m4 EXCEPT !.PC = m4.val]} |->
        IF ~m5.E
        THEN With([m6 \in {pull8(m5)} |-> [m6 EXCEPT !.PBR = m6.val]])
        ELSE m5])])])])])

(***************************************************************************)
(* Bit tests, shifts and rotates.                                          *)
(***************************************************************************)
op_BIT(m, address) ==
    IF isMemory8Bit(m)
    THEN With([m1 \in {read8(m, address)} |->
         With([operand \in {m1.val} |->
         With([result \in {BitAnd(BitAnd(m1.A, \hFF), operand)} |->
         With([m2 \in {setFlag(m1, FLAG_ZERO, result = 0)} |->
         With([m3 \in {setFlag(m2, FLAG_NEGATIVE, BitAnd(operand, \h80) # 0)} |->
             setFlag(m3, FLAG_OVERFLOW, BitAnd(operand, \h40) # 0)])])])])])
    ELSE With([m1 \in {read16(m, address)} |->
         With([operand \in {m1.val} |->
         With([result \in {BitAnd(m1.A, operand)} |->
         With([m2 \in {setFlag(m1, FLAG_ZERO, result = 0)} |->
         With([m3 \in {setFlag(m2, FLAG_NEGATIVE, BitAnd(operand, \h8000) # 0)} |->
             setFlag(m3, FLAG_OVERFLOW, BitAnd(operand, \h4000) # 0)])])])])])

op_ASL(m, address) ==
    IF isMemory8Bit(m)
    THEN With([m1 \in {read8(m, address)} |->
         With([m2 \in {setFlag(m1, FLAG_CARRY, BitAnd(m1.val, \h80) # 0)} |->
         With([value \in {BitAnd(m1.val * 2, \hFF)} |->
             updateNZ8(write8(m2, address, value), value)])])])
    ELSE With([m1 \in {read16(m, address)} |->
         With([m2 \in {setFlag(m1, FLAG_CARRY, BitAnd(m1.val, \h8000) # 0)} |->
         With([value \in {BitAnd(m1.val * 2, \hFFFF)} |->
             updateNZ16(write16(m2, address, value), value)])])])

op_ASL_A(m) ==
    IF isMemory8Bit(m)
    THEN With([v \in {BitAnd(m.A, \hFF)} |->
         With([m1 \in {setFlag(m, FLAG_CARRY, BitAnd(v, \h80) # 0)} |->
         With([value \in {BitAnd(v * 2, \hFF)} |->
             updateNZ8(SetLowA(m1, value), value)])])])
    ELSE With([m1 \in {setFlag(m, FLAG_CARRY, BitAnd(m.A, \h8000) # 0)} |->
         With([m2 \in {[m1 EXCEPT !.A = BitAnd(m1.A * 2, \hFFFF)]} |->
             updateNZ16(m2, m2.A)])])

op_LSR(m, address) ==
    IF isMemory8Bit(m)
    THEN With([m1 \in {read8(m, address)} |->
         With([m2 \in {setFlag(m1, FLAG_CARRY, BitAnd(m1.val, \h01) # 0)} |->
         With([value \in {m1.val \div 2} |->
             updateNZ8(write8(m2, address, value), value)])])])
    ELSE With([m1 \in {read16(m, address)} |->
         With([m2 \in {setFlag(m1, FLAG_CARRY, BitAnd(m1.val, \h01) # 0)} |->
         With([value \in {m1.val \div 2} |->
             updateNZ16(write16(m2, address, value), value)])])])

op_LSR_A(m) ==
    IF isMemory8Bit(m)
    THEN With([v \in {BitAnd(m.A, \hFF)} |->
         With([m1 \in {setFlag(m, FLAG_CARRY, BitAnd(v, \h01) # 0)} |->
         With([value \in {v \div 2} |->
             updateNZ8(SetLowA(m1, value), value)])])])
    ELSE With([m1 \in {setFlag(m, FLAG_CARRY, BitAnd(m.A, \h01) # 0)} |->
         With([m2 \in {[m1 EXCEPT !.A = m1.A \div 2]} |->
             updateNZ16(m2, m2.A)])])

op_ROL(m, address) ==
    IF isMemory8Bit(m)
    THEN With([m1 \in {read8(m, address)} |->
         With([oldCarry \in {getFlag(m1, FLAG_CARRY)} |->
         With([m2 \in {setFlag(m1, FLAG_CARRY, BitAnd(m1.val, \h80) # 0)} |->
         With([value \in {BitOr(BitAnd(m1.val * 2, \hFF), IF oldCarry THEN 1 ELSE 0)} |->
             updateNZ8(write8(m2, address, value), value)])])])])
    ELSE With([m1 \in {read16(m, address)} |->
         With([oldCarry \in {getFlag(m1, FLAG_CARRY)} |->
         With([m2 \in {setFlag(m1, FLAG_CARRY, BitAnd(m1.val, \h8000) # 0)} |->
         With([value \in {BitOr(BitAnd(m1.val * 2, \hFFFF), IF oldCarry THEN 1 ELSE 0)} |->
             updateNZ16(write16(m2, address, value), value)])])])])

op_ROL_A(m) ==
    IF isMemory8Bit(m)
    THEN With([v \in {BitAnd(m.A, \hFF)} |->
         With([oldCarry \in {getFlag(m, FLAG_CARRY)} |->
         With([m1 \in {setFlag(m, FLAG_CARRY, BitAnd(v, \h80) # 0)} |->
         With([value \in {BitOr(BitAnd(v * 2, \hFF), IF oldCarry THEN 1 ELSE 0)} |->
             updateNZ8(SetLowA(m1, value), value)])])])])
    ELSE With([oldCarry \in {getFlag(m, FLAG_CARRY)} |->
         With([m1 \in {setFlag(m, FLAG_CARRY, BitAnd(m.A, \h8000) # 0)} |->
         With([m2 \in {[m1 EXCEPT !.A = BitOr(BitAnd(m1.A * 2, \hFFFF),
                                          IF oldCarry THEN 1 ELSE 0)]} |->
             updateNZ16(m2, m2.A)])])])

op_ROR(m, address) ==
    IF isMemory8Bit(m)
    THEN With([m1 \in {read8(m, address)} |->
         With([oldCarry \in {getFlag(m1, FLAG_CARRY)} |->
         With([m2 \in {setFlag(m1, FLAG_CARRY, BitAnd(m1.val, \h01) # 0)} |->
         With([value \in {BitOr(m1.val \div 2, IF oldCarry THEN \h80 ELSE 0)} |->
             updateNZ8(write8(m2, address, value), value)])])])])
    ELSE With([m1 \in {read16(m, address)} |->
         With([oldCarry \in {getFlag(m1, FLAG_CARRY)} |->
         With([m2 \in {setFlag(m1, FLAG_CARRY, BitAnd(m1.val, \h01) # 0)} |->
         With([value \in {BitOr(m1.val \div 2, IF oldCarry THEN \h8000 ELSE 0)} |->
             updateNZ16(write16(m2, address, value), value)])])])])

op_ROR_A(m) ==
    IF isMemory8Bit(m)
    THEN With([v \in {BitAnd(m.A, \hFF)} |->
         With([oldCarry \in {getFlag(m, FLAG_CARRY)} |->
         With([m1 \in {setFlag(m, FLAG_CARRY, BitAnd(v, \h01) # 0)} |->
         With([value \in {BitOr(v \div 2, IF oldCarry THEN \h80 ELSE 0)} |->
             updateNZ8(SetLowA(m1, value), value)])])])])
    ELSE With([oldCarry \in {getFlag(m, FLAG_CARRY)} |->
         With([m1 \in {setFlag(m, FLAG_CARRY, BitAnd(m.A, \h01) # 0)} |->
         With([m2 \in {[m1 EXCEPT !.A = BitOr(m1.A \div 2, IF oldCarry THEN \h8000 ELSE 0)]} |->
             updateNZ16(m2, m2.A)])])])

(***************************************************************************)
(* Flag instructions and the mode exchange.                                *)
(***************************************************************************)
op_CLC(m) == setFlag(m, FLAG_CARRY, FALSE)
op_SEC(m) == setFlag(m, FLAG_CARRY, TRUE)
op_CLI(m) == setFlag(m, FLAG_IRQ_DISABLE, FALSE)
op_SEI(m) == setFlag(m, FLAG_IRQ_DISABLE, TRUE)
op_CLV(m) == setFlag(m, FLAG_OVERFLOW, FALSE)
op_CLD(m) == setFlag(m, FLAG_DECIMAL, FALSE)
op_SED(m) == setFlag(m, FLAG_DECIMAL, TRUE)

\* op_REP without the emulation-mode guard on the mask
op_REP_Unguarded(m) ==
    With([m1 \in {fetchByte(m)} |->
        [m1 EXCEPT !.P = BitAnd(@, Not8(m1.val))]])

op_REP(m) ==
    With([m1 \in {fetchByte(m)} |->
    With([mask \in {IF m1.E THEN BitAnd(m1.val, Not8(\h30)) ELSE m1.val} |->
        [m1 EXCEPT !.P = BitAnd(@, Not8(mask))]])])

op_SEP(m) ==
    With([m1 \in {fetchByte(m)} |->
    With([m2 \in {[m1 EXCEPT !.P = BitOr(@, m1.val)]} |->
        IF m2.E THEN [m2 EXCEPT !.P = BitOr(@, \h30)] ELSE m2])])

\* XCE that moves E into the carry and always leaves native mode
op_XCE_EntersNative(m) ==
    With([m1 \in {setFlag(m, FLAG_CARRY, m.E)} |-> [m1 EXCEPT !.E = FALSE]])

\* XCE that forces the width flags on entering emulation mode and leaves the
\* index registers and the stack pointer alone
op_XCE_KeepsHighBytes(m) ==
    With([oldCarry \in {getFlag(m, FLAG_CARRY)} |->
    With([m1 \in {setFlag(m, FLAG_CARRY, m.E)} |->
    With([m2 \in {[m1 EXCEPT !.E = oldCarry]} |->
        IF m2.E THEN [m2 EXCEPT !.P = BitOr(@, \h30)] ELSE m2])])])

op_XCE(m) ==
    With([oldCarry \in {getFlag(m, FLAG_CARRY)} |->
    With([oldEmulation \in {m.E} |->
    With([m1 \in {setFlag(m, FLAG_CARRY, oldEmulation)} |->
    With([m2 \in {[m1 EXCEPT !.E = oldCarry]} |->
        IF m2.E
        THEN [m2 EXCEPT !.P = BitOr(@, \h30),
                        !.X = BitAnd(@, \hFF),
                        !.Y = BitAnd(@, \hFF),
                        !.SP = BitOr(\h0100, BitAnd(@, \hFF))]
        ELSE m2])])])])

op_TSB(m, address) ==
    IF isMemory8Bit(m)
    THEN With([m1 \in {read8(m, address)} |->
         With([a \in {BitAnd(m1.A, \hFF)} |->
         With([m2 \in {setFlag(m1, FLAG_ZERO, BitAnd(a, m1.val) = 0)} |->
             write8(m2, address, BitOr(m1.val, a))])])])
    ELSE With([m1 \in {read16(m, address)} |->
         With([a \in {m1.A} |->
         With([m2 \in {setFlag(m1, FLAG_ZERO, BitAnd(a, m1.val) = 0)} |->
             write16(m2, address, BitOr(m1.val, a))])])])

op_TRB(m, address) ==
    IF isMemory8Bit(m)
    THEN With([m1 \in {read8(m, address)} |->
         With([a \in {BitAnd(m1.A, \hFF)} |->
         With([m2 \in {setFlag(m1, FLAG_ZERO, BitAnd(a, m1.val) = 0)} |->
             write8(m2, address, BitAnd(m1.val, Not8(a)))])])])
    ELSE With([m1 \in {read16(m, address)} |->
         With([a \in {m1.A} |->
         With([m2 \in {setFlag(m1, FLAG_ZERO, BitAnd(a, m1.val) = 0)} |->
             write16(m2, address, BitAnd(m1.val, Not16(a)))])])])

(***************************************************************************)
(* Block moves.                                                            *)
(***************************************************************************)
\* the counter step of a block move without the return to the opcode
blockCount_NoRepeat(m) ==
    IF m.A = 0 THEN [m EXCEPT !.A = \hFFFF]
    ELSE [m EXCEPT !.A = BitAnd(m.A - 1, \hFFFF)]

\* the counter step MVP and MVN share: A counts down, and PC goes back to the
\* opcode unless A was 0
blockCount(m) ==
    IF m.A = 0 THEN [m EXCEPT !.A = \hFFFF]
    ELSE [m EXCEPT !.A = BitAnd(m.A - 1, \hFFFF), !.PC = U16(m.PC - 3)]

op_MVP(m) ==
    With([m1 \in {fetchByte(m)} |->
    With([destBank \in {m1.val} |->
    With([m2 \in {fetchByte(m1)} |->
    With([srcBank \in {m2.val} |->
    With([srcAddr \in {BitOr(srcBank * \h10000, m2.X)} |->
    With([destAddr \in {BitOr(destBank * \h10000, m2.Y)} |->
    With([m3 \in {read8(m2, srcAddr)} |->
    With([m4 \in {write8(m3, destAddr, m3.val)} |->
    With([m5 \in {[m4 EXCEPT !.X = U16(m4.X - 1), !.Y = U16(m4.Y - 1)]} |->
    With([m6 \in {blockCount(m5)} |->
        [m6 EXCEPT !.DBR = destBank]])])])])])])])])])])

op_MVN(m) ==
    With([m1 \in {fetchByte(m)} |->
    With([destBank \in {m1.val} |->
    With([m2 \in {fetchByte(m1)} |->
    With([srcBank \in {m2.val} |->
    With([srcAddr \in {BitOr(srcBank * \h10000, m2.X)} |->
    With([destAddr \in {BitOr(destBank * \h10000, m2.Y)} |->
    With([m3 \in {read8(m2, srcAddr)} |->
    With([m4 \in {write8(m3, destAddr, m3.val)} |->
    With([m5 \in {[m4 EXCEPT !.X = BitAnd(m4.X + 1, \hFFFF), !.Y = BitAnd(m4.Y + 1, \hFFFF)]} |->
    With([m6 \in {blockCount(m5)} |->
        [m6 EXCEPT !.DBR = destBank]])])])])])])])])])])

(***************************************************************************)
(* Software interrupts, WDM, STP, WAI.                                     *)
(***************************************************************************)
\* what BRK and COP do after their pushes: set I, clear D, load PC from the vector
enterVector(m, vector) ==
    With([m1 \in {setFlag(m, FLAG_IRQ_DISABLE, TRUE)} |->
    With([m2 \in {setFlag(m1, FLAG_DECIMAL, FALSE)} |->
    With([m3 \in {read16(m2, vector)} |->
        [m3 EXCEPT !.PC = m3.val, !.PBR = 0]])])])

op_BRK(m) ==
    With([m1 \in {fetchByte(m)} |->
        IF m1.E
        THEN With([m2 \in {push16(m1, m1.PC)} |->
             With([m3 \in {push8(m2, BitOr(m2.P, \h10))} |->
                 enterVector(m3, \hFFFE)])])
        ELSE With([m2 \in {push8(m1, m1.PBR)} |->
             With([m3 \in {push16(m2, m2.PC)} |->
             With([m4 \in {push8(m3, m3.P)} |->
                 enterVector(m4, \hFFE6)])])])])

\* COP that goes through the BRK vectors
op_COP_ThroughBrkVectors(m) ==
    With([m1 \in {fetchByte(m)} |->
        IF m1.E
        THEN With([m2 \in {push16(m1, m1.PC)} |->
             With([m3 \in {push8(m2, m2.P)} |->
                 enterVector(m3, \hFFFE)])])
        ELSE With([m2 \in {push8(m1, m1.PBR)} |->
             With([m3 \in {push16(m2, m2.PC)} |->
             With([m4 \in {push8(m3, m3.P)} |->
                 enterVector(m4, \hFFE6)])])])])

op_COP(m) ==
    With([m1 \in {fetchByte(m)} |->
        IF m1.E
        THEN With([m2 \in {push16(m1, m1.PC)} |->
             With([m3 \in {push8(m2, m2.P)} |->
                 enterVector(m3, \hFFF4)])])
        ELSE With([m2 \in {push8(m1, m1.PBR)} |->
             With([m3 \in {push16(m2, m2.PC)} |->
             With([m4 \in {push8(m3, m3.P)} |->
                 enterVector(m4, \hFFE4)])])])])

op_WDM(m) == fetchByte(m)

\* op_STP without the step back to the opcode
op_STP_Advancing(m) == m

op_STP(m) == [m EXCEPT !.PC = U16(@ - 1)]

op_WAI(m) == [m EXCEPT !.PC = U16(@ - 1)]

(***************************************************************************)
(* decodeAndExecute: the opcode switch, in the order of the source.  The   *)
(* machine it returns has the cycle count in val.                          *)
(***************************************************************************)
\* op(getAddress_...()): the operation applied at the address the mode left in val
At(op(_, _), m1) == With([m2 \in {m1} |-> op(m2, m2.val)])

\* return isMemory8Bit() ? a : b, and the same by isIndex8Bit() and by registers.E
ByMemory(m1, a, b) == With([m2 \in {m1} |-> Ret(m2, IF isMemory8Bit(m2) THEN a ELSE b)])
ByIndex(m1, a, b) == With([m2 \in {m1} |-> Ret(m2, IF isIndex8Bit(m2) THEN a ELSE b)])
ByE(m1, a, b) == With([m2 \in {m1} |-> Ret(m2, IF m2.E THEN a ELSE b)])

decodeAndExecute(m, opcode) ==
    CASE opcode = \hEA ->
            Ret(op_NOP(m), 2)
      [] opcode = \hA9 ->
            IF isMemory8Bit(m)
            THEN With([m1 \in {fetchByte(m)} |->
                     Ret(updateNZ8(SetLowA(m1, m1.val), m1.val), 2)])
            ELSE With([m1 \in {fetchWord(m)} |->
                     Ret(updateNZ16([m1 EXCEPT !.A = m1.val], m1.val), 3)])
      [] opcode = \hAA ->
            Ret(op_TAX(m), 2)
      [] opcode = \hA8 ->
            Ret(op_TAY(m), 2)
      [] opcode = \h8A ->
            Ret(op_TXA(m), 2)
      [] opcode = \h98 ->
            Ret(op_TYA(m), 2)
      [] opcode = \hBA ->
            Ret(op_TSX(m), 2)
      [] opcode = \h9A ->
            Ret(op_TXS(m), 2)
      [] opcode = \h5B ->
            Ret(op_TCD(m), 2)
      [] opcode = \h7B ->
            Ret(op_TDC(m), 2)
      [] opcode = \h1B ->
            Ret(op_TCS(m), 2)
      [] opcode = \h3B ->
            Ret(op_TSC(m), 2)
      [] opcode = \h48 ->
            ByMemory(op_PHA(m), 3, 4)
      [] opcode = \hDA ->
            ByIndex(op_PHX(m), 3, 4)
      [] opcode = \h5A ->
            ByIndex(op_PHY(m), 3, 4)
      [] opcode = \h08 ->
            Ret(op_PHP(m), 3)
      [] opcode = \h0B ->
            Ret(op_PHD(m), 4)
      [] opcode = \h8B ->
            Ret(op_PHB(m), 3)
      [] opcode = \h4B ->
            Ret(op_PHK(m), 3)
      [] opcode = \h68 ->
            ByMemory(op_PLA(m), 4, 5)
      [] opcode = \hFA ->
            ByIndex(op_PLX(m), 4, 5)
      [] opcode = \h7A ->
            ByIndex(op_PLY(m), 4, 5)
      [] opcode = \h28 ->
            Ret(op_PLP(m), 4)
      [] opcode = \h2B ->
            Ret(op_PLD(m), 5)
      [] opcode = \hAB ->
            Ret(op_PLB(m), 4)
      [] opcode = \h69 ->
            IF isMemory8Bit(m) THEN Ret(At(op_ADC, getAddress_Immediate(m)), 2)
            ELSE Ret(At(op_ADC, getAddress_Immediate(m)), 3)
      [] opcode = \h65 ->
            ByMemory(At(op_ADC, getAddress_Direct(m)), 3, 4)
      [] opcode = \h75 ->
            ByMemory(At(op_ADC, getAddress_DirectX(m)), 4, 5)
      [] opcode = \h6D ->
            ByMemory(At(op_ADC, getAddress_Absolute(m)), 4, 5)
      [] opcode = \h7D ->
            ByMemory(At(op_ADC, getAddress_AbsoluteX(m)), 4, 5)
      [] opcode = \h79 ->
            ByMemory(At(op_ADC, getAddress_AbsoluteY(m)), 4, 5)
      [] opcode = \h61 ->
            ByMemory(At(op_ADC, getAddress_IndirectX(m)), 6, 7)
      [] opcode = \h71 ->
            ByMemory(At(op_ADC, getAddress_IndirectY(m)), 5, 6)
      [] opcode = \hE9 ->
            IF isMemory8Bit(m) THEN Ret(At(op_SBC, getAddress_Immediate(m)), 2)
            ELSE Ret(At(op_SBC, getAddress_Immediate(m)), 3)
      [] opcode = \hE5 ->
            ByMemory(At(op_SBC, getAddress_Direct(m)), 3, 4)
      [] opcode = \hF5 ->
            ByMemory(At(op_SBC, getAddress_DirectX(m)), 4, 5)
      [] opcode = \hED ->
            ByMemory(At(op_SBC, getAddress_Absolute(m)), 4, 5)
      [] opcode = \hFD ->
            ByMemory(At(op_SBC, getAddress_AbsoluteX(m)), 4, 5)
      [] opcode = \hF9 ->
            ByMemory(At(op_SBC, getAddress_AbsoluteY(m)), 4, 5)
      [] opcode = \hE1 ->
            ByMemory(At(op_SBC, getAddress_IndirectX(m)), 6, 7)
      [] opcode = \hF1 ->
            ByMemory(At(op_SBC, getAddress_IndirectY(m)), 5, 6)
      [] opcode = \hE8 ->
            Ret(op_INX(m), 2)
      [] opcode = \hC8 ->
            Ret(op_INY(m), 2)
      [] opcode = \hCA ->
            Ret(op_DEX(m), 2)
      [] opcode = \h88 ->
            Ret(op_DEY(m), 2)
      [] opcode = \hA2 ->
            IF isIndex8Bit(m) THEN Ret(At(op_LDX, getAddress_Immediate(m)), 2)
            ELSE Ret(At(op_LDX, getAddress_Immediate(m)), 3)
      [] opcode = \hAD ->
            ByMemory(At(op_LDA, getAddress_Absolute(m)), 4, 5)
      [] opcode = \hBD ->
            ByMemory(At(op_LDA, getAddress_AbsoluteX(m)), 4, 5)
      [] opcode = \h9D ->
            ByMemory(At(op_STA, getAddress_AbsoluteX(m)), 5, 6)
      [] opcode = \hA6 ->
            ByIndex(At(op_LDX, getAddress_Direct(m)), 3, 4)
      [] opcode = \hB6 ->
            ByIndex(At(op_LDX, getAddress_DirectY(m)), 4, 5)
      [] opcode = \hAE ->
            ByIndex(At(op_LDX, getAddress_Absolute(m)), 4, 5)
      [] opcode = \hBE ->
            ByIndex(At(op_LDX, getAddress_AbsoluteY(m)), 4, 5)
      [] opcode = \hA0 ->
            IF isIndex8Bit(m) THEN Ret(At(op_LDY, getAddress_Immediate(m)), 2)
            ELSE Ret(At(op_LDY, getAddress_Immediate(m)), 3)
      [] opcode = \hA4 ->
            ByIndex(At(op_LDY, getAddress_Direct(m)), 3, 4)
      [] opcode = \hB4 ->
            ByIndex(At(op_LDY, getAddress_DirectX(m)), 4, 5)
      [] opcode = \hAC ->
            ByIndex(At(op_LDY, getAddress_Absolute(m)), 4, 5)
      [] opcode = \hBC ->
            ByIndex(At(op_LDY, getAddress_AbsoluteX(m)), 4, 5)
      [] opcode = \h86 ->
            ByIndex(At(op_STX, getAddress_Direct(m)), 3, 4)
      [] opcode = \h96 ->
            ByIndex(At(op_STX, getAddress_DirectY(m)), 4, 5)
      [] opcode = \h8E ->
            ByIndex(At(op_STX, getAddress_Absolute(m)), 4, 5)
      [] opcode = \h84 ->
            ByIndex(At(op_STY, getAddress_Direct(m)), 3, 4)
      [] opcode = \h94 ->
            ByIndex(At(op_STY, getAddress_DirectX(m)), 4, 5)
      [] opcode = \h8C ->
            ByIndex(At(op_STY, getAddress_Absolute(m)), 4, 5)
      [] opcode = \h8D ->
            ByMemory(At(op_STA, getAddress_Absolute(m)), 4, 5)
      [] opcode = \h85 ->
            ByMemory(At(op_STA, getAddress_Direct(m)), 3, 4)
      [] opcode = \h99 ->
            ByMemory(At(op_STA, getAddress_AbsoluteY(m)), 5, 6)
      [] opcode = \h1A ->
            Ret(op_INC_A(m), 2)
      [] opcode = \hE6 ->
            ByMemory(At(op_INC, getAddress_Direct(m)), 5, 6)
      [] opcode = \hF6 ->
            ByMemory(At(op_INC, getAddress_DirectX(m)), 6, 7)
      [] opcode = \hEE ->
            ByMemory(At(op_INC, getAddress_Absolute(m)), 6, 7)
      [] opcode = \hFE ->
            ByMemory(At(op_INC, getAddress_AbsoluteX(m)), 7, 8)
      [] opcode = \h3A ->
            Ret(op_DEC_A(m), 2)
      [] opcode = \hC6 ->
            ByMemory(At(op_DEC, getAddress_Direct(m)), 5, 6)
      [] opcode = \hD6 ->
            ByMemory(At(op_DEC, getAddress_DirectX(m)), 6, 7)
      [] opcode = \hCE ->
            ByMemory(At(op_DEC, getAddress_Absolute(m)), 6, 7)
      [] opcode = \hDE ->
            ByMemory(At(op_DEC, getAddress_AbsoluteX(m)), 7, 8)
      [] opcode = \h29 ->
            IF isMemory8Bit(m) THEN Ret(At(op_AND, getAddress_Immediate(m)), 2)
            ELSE Ret(At(op_AND, getAddress_Immediate(m)), 3)
      [] opcode = \h25 ->
            ByMemory(At(op_AND, getAddress_Direct(m)), 3, 4)
      [] opcode = \h35 ->
            ByMemory(At(op_AND, getAddress_DirectX(m)), 4, 5)
      [] opcode = \h2D ->
            ByMemory(At(op_AND, getAddress_Absolute(m)), 4, 5)
      [] opcode = \h3D ->
            ByMemory(At(op_AND, getAddress_AbsoluteX(m)), 4, 5)
      [] opcode = \h39 ->
            ByMemory(At(op_AND, getAddress_AbsoluteY(m)), 4, 5)
      [] opcode = \h21 ->
            ByMemory(At(op_AND, getAddress_IndirectX(m)), 6, 7)
      [] opcode = \h31 ->
            ByMemory(At(op_AND, getAddress_IndirectY(m)), 5, 6)
      [] opcode = \h09 ->
            IF isMemory8Bit(m) THEN Ret(At(op_ORA, getAddress_Immediate(m)), 2)
            ELSE Ret(At(op_ORA, getAddress_Immediate(m)), 3)
      [] opcode = \h05 ->
            ByMemory(At(op_ORA, getAddress_Direct(m)), 3, 4)
      [] opcode = \h15 ->
            ByMemory(At(op_ORA, getAddress_DirectX(m)), 4, 5)
      [] opcode = \h0D ->
            ByMemory(At(op_ORA, getAddress_Absolute(m)), 4, 5)
      [] opcode = \h1D ->
            ByMemory(At(op_ORA, getAddress_AbsoluteX(m)), 4, 5)
      [] opcode = \h19 ->
            ByMemory(At(op_ORA, getAddress_AbsoluteY(m)), 4, 5)
      [] opcode = \h01 ->
            ByMemory(At(op_ORA, getAddress_IndirectX(m)), 6, 7)
      [] opcode = \h11 ->
            ByMemory(At(op_ORA, getAddress_IndirectY(m)), 5, 6)
      [] opcode = \h49 ->
            IF isMemory8Bit(m) THEN Ret(At(op_EOR, getAddress_Immediate(m)), 2)
            ELSE Ret(At(op_EOR, getAddress_Immediate(m)), 3)
      [] opcode = \h45 ->
            ByMemory(At(op_EOR, getAddress_Direct(m)), 3, 4)
      [] opcode = \h55 ->
            ByMemory(At(op_EOR, getAddress_DirectX(m)), 4, 5)
      [] opcode = \h4D ->
            ByMemory(At(op_EOR, getAddress_Absolute(m)), 4, 5)
      [] opcode = \h5D ->
            ByMemory(At(op_EOR, getAddress_AbsoluteX(m)), 4, 5)
      [] opcode = \h59 ->
            ByMemory(At(op_EOR, getAddress_AbsoluteY(m)), 4, 5)
      [] opcode = \h41 ->
            ByMemory(At(op_EOR, getAddress_IndirectX(m)), 6, 7)
      [] opcode = \h51 ->
            ByMemory(At(op_EOR, getAddress_IndirectY(m)), 5, 6)
      [] opcode = \hC9 ->
            IF isMemory8Bit(m) THEN Ret(At(op_CMP, getAddress_Immediate(m)), 2)
            ELSE Ret(At(op_CMP, getAddress_Immediate(m)), 3)
      [] opcode = \hC5 ->
            ByMemory(At(op_CMP, getAddress_Direct(m)), 3, 4)
      [] opcode = \hD5 ->
            ByMemory(At(op_CMP, getAddress_DirectX(m)), 4, 5)
      [] opcode = \hCD ->
            ByMemory(At(op_CMP, getAddress_Absolute(m)), 4, 5)
      [] opcode = \hDD ->
            ByMemory(At(op_CMP, getAddress_AbsoluteX(m)), 4, 5)
      [] opcode = \hD9 ->
            ByMemory(At(op_CMP, getAddress_AbsoluteY(m)), 4, 5)
      [] opcode = \hC1 ->
            ByMemory(At(op_CMP, getAddress_IndirectX(m)), 6, 7)
      [] opcode = \hD1 ->
            ByMemory(At(op_CMP, getAddress_IndirectY(m)), 5, 6)
      [] opcode = \hE0 ->
            IF isIndex8Bit(m) THEN Ret(At(op_CPX, getAddress_Immediate(m)), 2)
            ELSE Ret(At(op_CPX, getAddress_Immediate(m)), 3)
      [] opcode = \hE4 ->
            ByIndex(At(op_CPX, getAddress_Direct(m)), 3, 4)
      [] opcode = \hEC ->
            ByIndex(At(op_CPX, getAddress_Absolute(m)), 4, 5)
      [] opcode = \hC0 ->
            IF isIndex8Bit(m) THEN Ret(At(op_CPY, getAddress_Immediate(m)), 2)
            ELSE Ret(At(op_CPY, getAddress_Immediate(m)), 3)
      [] opcode = \hC4 ->
            ByIndex(At(op_CPY, getAddress_Direct(m)), 3, 4)
      [] opcode = \hCC ->
            ByIndex(At(op_CPY, getAddress_Absolute(m)), 4, 5)
      [] opcode = \hF0 ->
            Ret(op_BEQ(m), 2)
      [] opcode = \hD0 ->
            Ret(op_BNE(m), 2)
      [] opcode = \hB0 ->
            Ret(op_BCS(m), 2)
      [] opcode = \h90 ->
            Ret(op_BCC(m), 2)
      [] opcode = \h30 ->
            Ret(op_BMI(m), 2)
      [] opcode = \h10 ->
            Ret(op_BPL(m), 2)
      [] opcode = \h70 ->
            Ret(op_BVS(m), 2)
      [] opcode = \h50 ->
            Ret(op_BVC(m), 2)
      [] opcode = \h4C ->
            With([m1 \in {fetchWord(m)} |->
            With([fullAddress \in {BitOr(m1.PBR * \h10000, m1.val)} |->
                Ret(op_JMP(m1, fullAddress), 3)])])
      [] opcode = \h6C ->
            With([m1 \in {fetchWord(m)} |->
            With([pointerAddress \in {BitOr(m1.DBR * \h10000, m1.val)} |->
            With([m2 \in {read16(m1, pointerAddress)} |->
            With([fullAddress \in {BitOr(m2.PBR * \h10000, m2.val)} |->
                Ret(op_JMP(m2, fullAddress), 5)])])])])
      [] opcode = \h7C ->
            With([m1 \in {fetchWord(m)} |->
            With([indexedPointer \in {U16(m1.val + m1.X)} |->
            With([pointerAddress \in {BitOr(m1.PBR * \h10000, indexedPointer)} |->
            With([m2 \in {read16(m1, pointerAddress)} |->
            With([fullAddress \in {BitOr(m2.PBR * \h10000, m2.val)} |->
                Ret(op_JMP(m2, fullAddress), 6)])])])])])
      [] opcode = \h20 ->
            With([m1 \in {fetchWord(m)} |->
            With([fullAddress \in {BitOr(m1.PBR * \h10000, m1.val)} |->
                Ret(op_JSR(m1, fullAddress), 6)])])
      [] opcode = \h60 ->
            Ret(op_RTS(m), 6)
      [] opcode = \h40 ->
            Ret(op_RTI(m), 6)
      [] opcode = \h24 ->
            ByMemory(At(op_BIT, getAddress_Direct(m)), 3, 4)
      [] opcode = \h2C ->
            ByMemory(At(op_BIT, getAddress_Absolute(m)), 4, 5)
      [] opcode = \h34 ->
            ByMemory(At(op_BIT, getAddress_DirectX(m)), 4, 5)
      [] opcode = \h3C ->
            ByMemory(At(op_BIT, getAddress_AbsoluteX(m)), 4, 5)
      [] opcode = \h89 ->
            IF isMemory8Bit(m) THEN Ret(At(op_BIT, getAddress_Immediate(m)), 2)
            ELSE Ret(At(op_BIT, getAddress_Immediate(m)), 3)
      [] opcode = \h0A ->
            Ret(op_ASL_A(m), 2)
      [] opcode = \h06 ->
            ByMemory(At(op_ASL, getAddress_Direct(m)), 5, 6)
      [] opcode = \h16 ->
            ByMemory(At(op_ASL, getAddress_DirectX(m)), 6, 7)
      [] opcode = \h0E ->
            ByMemory(At(op_ASL, getAddress_Absolute(m)), 6, 7)
      [] opcode = \h1E ->
            ByMemory(At(op_ASL, getAddress_AbsoluteX(m)), 7, 8)
      [] opcode = \h4A ->
            Ret(op_LSR_A(m), 2)
      [] opcode = \h46 ->
            ByMemory(At(op_LSR, getAddress_Direct(m)), 5, 6)
      [] opcode = \h56 ->
            ByMemory(At(op_LSR, getAddress_DirectX(m)), 6, 7)
      [] opcode = \h4E ->
            ByMemory(At(op_LSR, getAddress_Absolute(m)), 6, 7)
      [] opcode = \h5E ->
            ByMemory(At(op_LSR, getAddress_AbsoluteX(m)), 7, 8)
      [] opcode = \h2A ->
            Ret(op_ROL_A(m), 2)
      [] opcode = \h26 ->
            ByMemory(At(op_ROL, getAddress_Direct(m)), 5, 6)
      [] opcode = \h36 ->
            ByMemory(At(op_ROL, getAddress_DirectX(m)), 6, 7)
      [] opcode = \h2E ->
            ByMemory(At(op_ROL, getAddress_Absolute(m)), 6, 7)
      [] opcode = \h3E ->
            ByMemory(At(op_ROL, getAddress_AbsoluteX(m)), 7, 8)
      [] opcode = \h6A ->
            Ret(op_ROR_A(m), 2)
      [] opcode = \h66 ->
            ByMemory(At(op_ROR, getAddress_Direct(m)), 5, 6)
      [] opcode = \h76 ->
            ByMemory(At(op_ROR, getAddress_DirectX(m)), 6, 7)
      [] opcode = \h6E ->
            ByMemory(At(op_ROR, getAddress_Absolute(m)), 6, 7)
      [] opcode = \h7E ->
            ByMemory(At(op_ROR, getAddress_AbsoluteX(m)), 7, 8)
      [] opcode = \h18 ->
            Ret(op_CLC(m), 2)
      [] opcode = \h38 ->
            Ret(op_SEC(m), 2)
      [] opcode = \h58 ->
            Ret(op_CLI(m), 2)
      [] opcode = \h78 ->
            Ret(op_SEI(m), 2)
      [] opcode = \hB8 ->
            Ret(op_CLV(m), 2)
      [] opcode = \hD8 ->
            Ret(op_CLD(m), 2)
      [] opcode = \hF8 ->
            Ret(op_SED(m), 2)
      [] opcode = \hC2 ->
            Ret(op_REP(m), 3)
      [] opcode = \hE2 ->
            Ret(op_SEP(m), 3)
      [] opcode = \hFB ->
            Ret(op_XCE(m), 2)
      [] opcode = \h04 ->
            ByMemory(At(op_TSB, getAddress_Direct(m)), 5, 6)
      [] opcode = \h0C ->
            ByMemory(At(op_TSB, getAddress_Absolute(m)), 6, 7)
      [] opcode = \h14 ->
            ByMemory(At(op_TRB, getAddress_Direct(m)), 5, 6)
      [] opcode = \h1C ->
            ByMemory(At(op_TRB, getAddress_Absolute(m)), 6, 7)
      [] opcode = \h44 ->
            Ret(op_MVP(m), 7)
      [] opcode = \h54 ->
            Ret(op_MVN(m), 7)
      [] opcode = \h00 ->
            ByE(op_BRK(m), 7, 8)
      [] opcode = \h02 ->
            ByE(op_COP(m), 7, 8)
      [] opcode = \h42 ->
            Ret(op_WDM(m), 2)
      [] opcode = \hDB ->
            Ret(op_STP(m), 3)
      [] opcode = \hCB ->
            Ret(op_WAI(m), 3)
      [] OTHER -> Ret(m, 2)

\* the opcodes the switch has a case for
Dispatched ==
    {\hEA, \hA9, \hAA, \hA8, \h8A, \h98, \hBA, \h9A, \h5B, \h7B, \h1B, \h3B,
     \h48, \hDA, \h5A, \h08, \h0B, \h8B, \h4B, \h68, \hFA, \h7A, \h28, \h2B,
     \hAB, \h69, \h65, \h75, \h6D, \h7D, \h79, \h61, \h71, \hE9, \hE5, \hF5,
     \hED, \hFD, \hF9, \hE1, \hF1, \hE8, \hC8, \hCA, \h88, \hA2, \hAD, \hBD,
     \h9D, \hA6, \hB6, \hAE, \hBE, \hA0, \hA4, \hB4, \hAC, \hBC, \h86, \h96,
     \h8E, \h84, \h94, \h8C, \h8D, \h85, \h99, \h1A, \hE6, \hF6, \hEE, \hFE,
     \h3A, \hC6, \hD6, \hCE, \hDE, \h29, \h25, \h35, \h2D, \h3D, \h39, \h21,
     \h31, \h09, \h05, \h15, \h0D, \h1D, \h19, \h01, \h11, \h49, \h45, \h55,
     \h4D, \h5D, \h59, \h41, \h51, \hC9, \hC5, \hD5, \hCD, \hDD, \hD9, \hC1,
     \hD1, \hE0, \hE4, \hEC, \hC0, \hC4, \hCC, \hF0, \hD0, \hB0, \h90, \h30,
     \h10, \h70, \h50, \h4C, \h6C, \h7C, \h20, \h60, \h40, \h24, \h2C, \h34,
     \h3C, \h89, \h0A, \h06, \h16, \h0E, \h1E, \h4A, \h46, \h56, \h4E, \h5E,
     \h2A, \h26, \h36, \h2E, \h3E, \h6A, \h66, \h76, \h6E, \h7E, \h18, \h38,
     \h58, \h78, \hB8, \hD8, \hF8, \hC2, \hE2, \hFB, \h04, \h0C, \h14, \h1C,
     \h44, \h54, \h00, \h02, \h42, \hDB, \hCB}

\* executeInstruction that takes an opcode without a case for a two-byte
\* instruction and skips its operand byte
executeInstruction_SkipsOperand(m) ==
    With([m1 \in {fetchByte(m)} |->
    With([opcode \in {m1.val} |->
    With([m2 \in {IF opcode \in Dispatched THEN decodeAndExecute(m1, opcode)
                  ELSE Ret(fetchByte(m1), 2)} |->
        [m2 EXCEPT !.opc = opcode]])])])

\* executeInstruction: the machine after one instruction, with the cycle count it
\* returns in val and the opcode it fetched in opc (totalCycles is added in Step)
executeInstruction(m) ==
    With([m1 \in {fetchByte(m)} |->
    With([opcode \in {m1.val} |->
    With([m2 \in {decodeAndExecute(m1, opcode)} |->
        [m2 EXCEPT !.opc = opcode]])])])

(***************************************************************************)
(* The state machine.                                                      *)
(***************************************************************************)
\* reset() that leaves the emulation flag as it finds it
reset_KeepsMode(r) ==
    [A |-> 0, X |-> 0, Y |-> 0, SP |-> \h01FF, PC |-> \h8000, P |-> \h34,
     DBR |-> 0, PBR |-> 0, D |-> 0, E |-> r.E]

\* CPU65c816::reset on the registers r (totalCycles is cleared in ResetWithin)
reset(r) ==
    [r EXCEPT !.A = 0, !.X = 0, !.Y = 0, !.SP = \h01FF, !.P = \h34,
              !.DBR = 0, !.PBR = 0, !.D = 0, !.E = TRUE, !.PC = \h8000]

\* the registers as CPU65c816::CPU65c816 leaves them: it calls reset(), which
\* assigns every field
ResetRegisters ==
    reset([A |-> 0, X |-> 0, Y |-> 0, SP |-> 0, PC |-> 0, P |-> 0,
           DBR |-> 0, PBR |-> 0, D |-> 0, E |-> FALSE])

\* the machine the operators above work on, made of the given registers and arrays
MachineOf(r, w, s, c) ==
    [A |-> r.A, X |-> r.X, Y |-> r.Y, SP |-> r.SP, PC |-> r.PC, P |-> r.P,
     DBR |-> r.DBR, PBR |-> r.PBR, D |-> r.D, E |-> r.E,
     wram |-> w, sram |-> s, rom |-> c, memory |-> TRUE,
     val |-> 0, opc |-> 0, bus |-> <<>>]

\* the machine as it is: the registers, the arrays of the host's Memory, and
\* whether the processor has that Memory
Machine == [MachineOf(registers, wram, sram, rom) EXCEPT !.memory = memory]

RegistersOf(m) ==
    [A |-> m.A, X |-> m.X, Y |-> m.Y, SP |-> m.SP, PC |-> m.PC, P |-> m.P,
     DBR |-> m.DBR, PBR |-> m.PBR, D |-> m.D, E |-> m.E]

\* the arrays as one record, for MemoryRead
Mem == [wram |-> wram, sram |-> sram, rom |-> rom]

\* what the processor reads at `address`: the byte of its Memory, 0 without one
CpuRead(address) == read8(Machine, address).val

\* Memory::Memory
NewWram == Vector(WRAM_SIZE, 0)
NewSram == Vector(SRAM_SIZE, 0)
NoRom == Vector(0, 0)

Call(c, a, v) == [call |-> c, arg |-> a, value |-> v]

\* an executeInstruction call that returns its cycle count without adding it to
\* totalCycles
StepWithin_Uncounted(cap) ==
    /\ calls < cap
    /\ \E m \in {executeInstruction(Machine)} :
           /\ registers' = RegistersOf(m)
           /\ wram' = m.wram
           /\ sram' = m.sram
           /\ cycles' = m.val
           /\ totalCycles' = totalCycles
           /\ last' = Call("step", m.opc, 0)
           /\ busLog' = m.bus
    /\ prev' = registers
    /\ steps' = steps + 1
    /\ calls' = calls + 1
    /\ UNCHANGED <<rom, start, pending, memory, hostCalls>>

\* one executeInstruction call, made while the host has made fewer than cap calls
StepWithin(cap) ==
    /\ calls < cap
    /\ \E m \in {executeInstruction(Machine)} :
           /\ registers' = RegistersOf(m)
           /\ wram' = m.wram
           /\ sram' = m.sram
           /\ cycles' = m.val
           /\ totalCycles' = totalCycles + m.val
           /\ last' = Call("step", m.opc, 0)
           /\ busLog' = m.bus
    /\ prev' = registers
    /\ steps' = steps + 1
    /\ calls' = calls + 1
    /\ UNCHANGED <<rom, start, pending, memory, hostCalls>>

\* one reset() call, made while the host has made fewer than cap calls
ResetWithin(cap) ==
    /\ calls < cap
    /\ registers' = reset(registers)
    /\ totalCycles' = 0
    /\ cycles' = 0
    /\ last' = Call("reset", 0, 0)
    /\ prev' = registers
    /\ busLog' = <<>>
    /\ start' = reset(registers)
    /\ steps' = 0
    /\ calls' = calls + 1
    /\ UNCHANGED <<wram, sram, rom, pending, memory, hostCalls>>

(***************************************************************************)
(* Cartridges.  The programs are laid out as the repository's tests do:    *)
(* a 64 KiB image filled with NOP (0xEA), the program at offset 0x8000.    *)
(***************************************************************************)
ROM_SIZE == 65536
ROM_FILL == 234
PROGRAM_BASE == 32768

\* the image with `bytes` at PROGRAM_BASE
Cartridge(bytes) ==
    [size |-> ROM_SIZE, fill |-> ROM_FILL,
     data |-> [i \in {PROGRAM_BASE + k - 1 : k \in {j \in 1..Len(bytes) : bytes[j] # ROM_FILL}}
                 |-> bytes[i - PROGRAM_BASE + 1]]]

\* the status flags, as the values of enum StatusFlag
StatusFlags ==
    { FLAG_CARRY, FLAG_ZERO, FLAG_IRQ_DISABLE, FLAG_DECIMAL, FLAG_INDEX_WIDTH,
      FLAG_MEMORY_WIDTH, FLAG_OVERFLOW, FLAG_NEGATIVE }

\* the host calls setFlag or setMemory at most this many times in a run
MaxHostCalls == 1

\* one setFlag(flag, value) call of the host, made while the host has made fewer
\* than cap calls: a bit of P is set or cleared, whatever the mode; the run
\* that follows starts from the registers the call leaves
SetFlagWithin(cap) ==
    /\ calls < cap
    /\ hostCalls < MaxHostCalls
    /\ \E flag \in StatusFlags, value \in BOOLEAN :
           /\ registers' = RegistersOf(setFlag(Machine, flag, value))
           /\ last' = Call("setFlag", flag, IF value THEN 1 ELSE 0)
    /\ prev' = registers
    /\ busLog' = <<>>
    /\ start' = registers'
    /\ steps' = 0
    /\ calls' = calls + 1
    /\ hostCalls' = hostCalls + 1
    /\ UNCHANGED <<totalCycles, wram, sram, rom, cycles, pending, memory>>

\* one setMemory(mem) call of the host, with the host's Memory or with nullptr
SetMemoryWithin(cap) ==
    /\ calls < cap
    /\ hostCalls < MaxHostCalls
    /\ \E mem \in BOOLEAN :
           /\ memory' = mem
           /\ last' = Call("setMemory", IF mem THEN 1 ELSE 0, 0)
    /\ prev' = registers
    /\ busLog' = <<>>
    /\ start' = registers
    /\ steps' = 0
    /\ calls' = calls + 1
    /\ hostCalls' = hostCalls + 1
    /\ UNCHANGED <<registers, totalCycles, wram, sram, rom, cycles, pending>>

\* the longest program body, in instructions
MaxProgLen == 2
\* the host makes at most this many calls in a run
MaxCalls == 5

\* the instructions the program bodies are made of
Instructions ==
    { <<\h38>>, <<\hFB>>,                              \* SEC XCE
      <<\hC2, \h30>>, <<\hE2, \h30>>,                  \* REP #$30, SEP #$30
      <<\h48>>, <<\h28>>, <<\h40>>,                    \* PHA PLP RTI
      <<\h9A>>, <<\hBA>>, <<\h1B>>,                    \* TXS TSX TCS
      <<\hCA>>, <<\hFA>>, <<\hA9, \hFF>>,             \* DEX, PLX, LDA #$FF
      <<\h08>>, <<\hAA>>,                              \* PHP TAX
      <<\h00, \h00>>,                                  \* BRK
      <<\h54, \h00, \h00>>,                            \* MVN 0,0
      <<\hDB>> }                                       \* STP

\* the mode a program sets up before its body: emulation as reset leaves it,
\* native with 8-bit registers, native with 16-bit registers
Preambles ==
    { <<>>, <<\h18, \hFB>>, <<\h18, \hFB, \hC2, \h30>> }

RECURSIVE Bodies(_)
Bodies(n) ==
    IF n = 0 THEN { <<>> }
    ELSE With([shorter \in {Bodies(n - 1)} |->
             shorter \cup { b \o i : b \in shorter, i \in Instructions }])

Programs == { p \o b : p \in Preambles, b \in Bodies(MaxProgLen) }

(***************************************************************************)
(* Spec: a cartridge is loaded, the processor is reset, and the host calls *)
(* executeInstruction, reset, setFlag and setMemory.                       *)
(***************************************************************************)
Init ==
    /\ registers = ResetRegisters
    /\ totalCycles = 0
    /\ wram = NewWram
    /\ sram = NewSram
    /\ rom \in { Cartridge(p) : p \in Programs }
    /\ cycles = 0
    /\ last = Call("reset", 0, 0)
    /\ prev = ResetRegisters
    /\ busLog = <<>>
    /\ start = ResetRegisters
    /\ steps = 0
    /\ calls = 0
    /\ pending = {}
    /\ memory = TRUE
    /\ hostCalls = 0

Step == StepWithin(MaxCalls)

Reset == ResetWithin(MaxCalls)

SetFlag == SetFlagWithin(MaxCalls)

SetMemory == SetMemoryWithin(MaxCalls)

Next == Step \/ Reset \/ SetFlag \/ SetMemory

Spec == Init /\ [][Next]_vars

(***************************************************************************)
(* Properties of Spec.                                                     *)
(***************************************************************************)
\* the last call was executeInstruction and it ran this opcode
Ran(opcode) == last.call = "step" /\ last.arg = opcode

\* in emulation mode the M and X flags (bits 5 and 4 of P) are both 1
WidthFlagsSet(r) == r.E => BitAnd(r.P, \h30) = \h30

\* C1: from reset and after any sequence of executeInstruction calls, the
\* registers changed by instructions only, whenever the processor is in
\* emulation mode (E = 1) the M and X flags are both 1: it is so after reset,
\* and REP, SEP, PLP, RTI, XCE and every other instruction keep it so.  (The
\* host's setFlag can clear either flag in emulation mode; nothing is said of
\* the steps that follow until the flags are set again.)
EmulationKeepsWidthFlags ==
    /\ WidthFlagsSet(registers)
    /\ [][(last'.call \in {"step", "reset"} /\ WidthFlagsSet(registers))
            => WidthFlagsSet(registers')]_vars

\* C1's case: REP #$30, which asks for both bits to be cleared, has just run in
\* emulation mode
RepRanInEmulation ==
    /\ Ran(\hC2)
    /\ prev.E
    /\ registers.E
    /\ MemoryRead(Mem, prev.PBR * \h10000 + U16(prev.PC + 1)) = \h30

\* C2: after any instruction executed in emulation mode, TXS, TCS, pushes and
\* pulls included, the stack pointer is in page 1: (SP & 0xFF00) = 0x0100.
EmulationStackInPageOne ==
    (hostCalls = 0 /\ last.call = "step" /\ prev.E) => BitAnd(registers.SP, \hFF00) = \h0100

\* C3: at every instruction boundary reachable from reset by instructions,
\* without a call of the host in between, if the X flag (bit 4 of P) is 1 then
\* the high bytes of X and Y are 0.
NarrowIndexHighBytesZero ==
    (hostCalls = 0 /\ getFlag(registers, FLAG_INDEX_WIDTH))
        => registers.X < \h100 /\ registers.Y < \h100

\* C4: reset() leaves A = X = Y = 0, SP = 0x01FF, P = 0x34, DBR = PBR = 0,
\* D = 0, E = 1 and the cycle counter 0, whatever the state it was called in.
ResetStateIsFixed ==
    last.call = "reset" =>
        /\ registers.A = 0 /\ registers.X = 0 /\ registers.Y = 0
        /\ registers.SP = \h01FF
        /\ registers.P = \h34
        /\ registers.DBR = 0 /\ registers.PBR = 0
        /\ registers.D = 0
        /\ registers.E = TRUE
        /\ totalCycles = 0

\* C4's case: reset() was called in native mode with 16-bit registers, after
\* instructions had run and moved every register reset() is said to restore
ResetFromNativeMode ==
    /\ last.call = "reset"
    /\ ~prev.E
    /\ BitAnd(prev.P, \h30) = 0
    /\ prev.PC # \h8000
    /\ prev.SP # \h01FF
    /\ prev.X # 0

\* C7: once STP has run, every later executeInstruction returns a positive
\* cycle count, runs STP again, and leaves PC at the STP opcode and every
\* other register as it was; only reset() ends this.  STP leaves PC at its
\* own opcode, so the stopped processor is the one that reads STP at PBR:PC:
\* the steps covered are the one that first runs STP, those that follow it, and
\* those made after the host has set a flag in between.
StoppedStaysStopped ==
    [][(last'.call = "step" /\ (Ran(\hDB) \/ CpuRead(registers.PBR * \h10000 + registers.PC) = \hDB)) =>
            /\ cycles' > 0
            /\ last'.arg = \hDB
            /\ registers' = registers
            /\ MemoryRead(Mem', registers'.PBR * \h10000 + registers'.PC) = \hDB]_vars

\* C7's case: the processor has been stepped three more times after it stopped
\* in native mode, and is still at the STP opcode
SteppedWhileStopped ==
    /\ Ran(\hDB)
    /\ ~registers.E
    /\ steps >= 4
    /\ prev = registers
    /\ totalCycles >= 12
    /\ MemoryRead(Mem, registers.PBR * \h10000 + registers.PC) = \hDB

(***************************************************************************)
(* HostSpec: the host sets the machine up the way the repository's tests   *)
(* do (test_cpu.cpp, testBlockMove): reset, source bytes written through   *)
(* the bus, the registers assigned through the public `registers` member,  *)
(* a block move at 00:8000.  Then it calls executeInstruction, reset,      *)
(* setFlag and setMemory.                                                  *)
(***************************************************************************)
\* the largest count a block move is started with
MaxCount == 3

\* the bytes the host writes at bank 1, offsets 0x1000 and up
SourceBytes == << \hAA, \hBB, \hCC, \hDD >>
SOURCE_BASE == 69632

RECURSIVE WriteBytes(_, _, _)
\* Memory::write of each byte of `bytes`, in order, from `address` up
WriteBytes(mem, address, bytes) ==
    IF bytes = << >> THEN mem
    ELSE WriteBytes(MemoryWrite(mem, address, Head(bytes)), address + 1, Tail(bytes))

\* the memory after the set-up: the image of NOPs loaded, then the writes
HostMemory ==
    WriteBytes([wram |-> NewWram, sram |-> NewSram, rom |-> Cartridge(<<>>)],
               SOURCE_BASE, SourceBytes)

\* destination and source banks of the block moves: the test's pair (2, 1),
\* Work RAM bank to Work RAM bank, Work RAM to low bank, and a move in bank 0
BankPairs == { <<\h02, \h01>>, <<\h7F, \h7E>>, <<\h00, \h7E>>, <<\h00, \h00>> }

BlockMoves == { <<op, b[1], b[2]>> : op \in {\h54, \h44}, b \in BankPairs }

\* the registers the host assigns before the first step: the count in A and the
\* offsets in X and Y, in emulation mode as reset leaves it or in native mode
\* with 16-bit registers
HostRegisters ==
    { [ResetRegisters EXCEPT !.A = n, !.X = x, !.Y = y, !.E = mode[1], !.P = mode[2]] :
        n \in 0..MaxCount,
        x \in {\h1000, \h1003, \hFFFF},
        y \in {\h2000, \h0000, \hFFFE},
        mode \in { <<TRUE, \h34>>, <<FALSE, \h04>> } }

HostInit ==
    /\ registers \in HostRegisters
    /\ totalCycles = 0
    /\ wram = HostMemory.wram
    /\ sram = HostMemory.sram
    /\ rom \in { Cartridge(p) : p \in BlockMoves }
    /\ cycles = 0
    /\ last = Call("setup", 0, 0)
    /\ prev = ResetRegisters
    /\ busLog = <<>>
    /\ start = registers
    /\ steps = 0
    /\ calls = 0
    /\ pending = {}
    /\ memory = TRUE
    /\ hostCalls = 0

HostNext ==
    \/ StepWithin(MaxCount + 3)
    \/ ResetWithin(MaxCount + 3)
    \/ SetFlagWithin(MaxCount + 3)
    \/ SetMemoryWithin(MaxCount + 3)

HostSpec == HostInit /\ [][HostNext]_vars

\* the opcode and the two operand bytes at the address the run started from
\* the opcode and the operands the processor reads where the run started
StartOpcode == CpuRead(start.PBR * \h10000 + start.PC)
StartDestBank == CpuRead(start.PBR * \h10000 + U16(start.PC + 1))
StartSrcBank == CpuRead(start.PBR * \h10000 + U16(start.PC + 2))

\* what one step of the block move at PBR:PC does to the state, as C5 says it:
\* one byte read at srcBank:X and written at dstBank:Y, X and Y moved by `by`,
\* A decremented, PC left at the opcode unless A underflows
BlockMoveStep(by) ==
    LET at == registers.PBR * \h10000
        dstBank == MemoryRead(Mem, at + U16(registers.PC + 1))
        srcBank == MemoryRead(Mem, at + U16(registers.PC + 2))
        src == srcBank * \h10000 + registers.X
        dst == dstBank * \h10000 + registers.Y
        byte == MemoryRead(Mem, src)
    IN  /\ SubSeq(busLog', 4, Len(busLog')) = << <<"R", src, byte>>, <<"W", dst, byte>> >>
        /\ getRegion(dst) \in {"REGION_WRAM", "REGION_SRAM"} => MemoryRead(Mem', dst) = byte
        /\ registers'.X = (registers.X + by) % \h10000
        /\ registers'.Y = (registers.Y + by) % \h10000
        /\ registers'.A = (registers.A - 1) % \h10000
        /\ registers'.PC = IF registers.A = 0 THEN U16(registers.PC + 3) ELSE registers.PC
        /\ registers'.DBR = dstBank

\* C5: a block move started with A = n copies one byte per step from srcBank:X
\* to dstBank:Y, moves X and Y by +1 (MVN) or -1 (MVP) modulo 2^16 and
\* decrements A; the step leaves PC at the opcode while A has not underflowed;
\* after exactly n+1 steps A = 0xFFFF, PC is just past the 3-byte instruction
\* and DBR is the destination bank.
BlockMoveRepeatsAndEnds ==
    /\ [][ /\ (last'.call = "step" /\ last'.arg = \h54) => BlockMoveStep(1)
           /\ (last'.call = "step" /\ last'.arg = \h44) => BlockMoveStep(-1) ]_vars
    /\ [](StartOpcode \in {\h54, \h44} =>
            /\ steps <= start.A =>
                  /\ registers.A = start.A - steps
                  /\ registers.PC = start.PC
            /\ steps = start.A + 1 =>
                  /\ registers.A = \hFFFF
                  /\ registers.PC = U16(start.PC + 3)
                  /\ registers.DBR = StartDestBank)

\* C5's case: an MVN started with A = MaxCount has just finished, its last
\* byte moved from one Work RAM bank to the other
BlockMoveFinished ==
    /\ Ran(\h54)
    /\ start.A = MaxCount
    /\ steps = MaxCount + 1
    /\ registers.A = \hFFFF
    /\ StartDestBank = \h7F
    /\ start.X = \h1000
    /\ MemoryRead(Mem, \h7F0000 + U16(start.Y + MaxCount)) = SourceBytes[MaxCount + 1]

\* C6: scenario S7.  With 0xAA, 0xBB, 0xCC, 0xDD written through the bus at
\* bank 1 offsets 0x1000..0x1003, A = 3, X = 0x1000, Y = 0x2000 and the program
\* 54 02 01 at 00:8000, stepping from reset until A = 0xFFFF leaves bus reads of
\* bank 2 offsets 0x2000..0x2003 returning those four bytes, X = 0x1004,
\* Y = 0x2004 and DBR = 2.
ScenarioS7 ==
    ( /\ start = [ResetRegisters EXCEPT !.A = 3, !.X = \h1000, !.Y = \h2000]
      /\ rom = Cartridge(<<\h54, \h02, \h01>>)
      /\ last.call = "step"
      /\ registers.A = \hFFFF )
    => /\ \A k \in 0..3 : MemoryRead(Mem, \h022000 + k) = SourceBytes[k + 1]
       /\ registers.X = \h1004
       /\ registers.Y = \h2004
       /\ registers.DBR = \h02

(***************************************************************************)
(* IrqSpec: the host of section 6 of the design, which can mark an IRQ or  *)
(* an NMI pending between two executeInstruction calls.  The sources have  *)
(* no such entry point; RaiseInterrupt is written from the design text     *)
(* and only records the request, with the call count it was made at.       *)
(***************************************************************************)
InterruptKinds == {"IRQ", "NMI"}

\* programs that wait: WAI alone, after CLI, in native mode, after NOPs
WaitPrograms ==
    { <<\hCB>>, <<\h58, \hCB>>, <<\h18, \hFB, \hCB>>, <<\h18, \hFB, \h58, \hCB>>,
      <<\hEA, \hEA, \hCB>>, <<\h58>> }

IrqInit ==
    /\ registers = ResetRegisters
    /\ totalCycles = 0
    /\ wram = NewWram
    /\ sram = NewSram
    /\ rom \in { Cartridge(p) : p \in WaitPrograms }
    /\ cycles = 0
    /\ last = Call("reset", 0, 0)
    /\ prev = ResetRegisters
    /\ busLog = <<>>
    /\ start = ResetRegisters
    /\ steps = 0
    /\ calls = 0
    /\ pending = {}
    /\ memory = TRUE
    /\ hostCalls = 0

\* pending_interrupt(kind): sticky, so raising a kind that is pending adds nothing
RaiseInterrupt(kind) ==
    /\ \A i \in pending : i.kind # kind
    /\ pending' = pending \cup { [kind |-> kind, at |-> calls] }
    /\ UNCHANGED <<registers, totalCycles, wram, sram, rom, cycles, last, prev,
                   busLog, start, steps, calls, memory, hostCalls>>

IrqNext == Step \/ \E kind \in InterruptKinds : RaiseInterrupt(kind)

IrqSpec == IrqInit /\ [][IrqNext]_vars

\* the processor is waiting: the last instruction was WAI
Waiting == Ran(\hCB)

\* the next state comes from an executeInstruction call
Stepping == calls' = calls + 1 /\ last'.call = "step"

\* C8: after WAI the processor waits: PC does not advance while no interrupt
\* is pending, and once an IRQ or NMI is pending the processor leaves the
\* waiting state and runs instructions again.  Interrupts are sampled at every
\* instruction boundary, so the step that finds one pending is the step that
\* leaves; the property is stated for that step, which a finite run decides.
WaitEndsOnInterrupt ==
    [][(Waiting /\ Stepping) =>
          IF pending = {}
          THEN registers'.PC = registers.PC
          ELSE ~(last'.arg = \hCB /\ registers'.PC = registers.PC)]_vars

\* C8's case: an NMI was raised before the second step of the run, and four
\* steps later the processor is still at the WAI it started with
StillWaitingWithInterruptPending ==
    /\ Waiting
    /\ steps = MaxCalls
    /\ registers.PC = \h8000
    /\ \E i \in pending : i.kind = "NMI" /\ i.at <= 1

\* the interrupt the processor can take at this boundary: an NMI, or an IRQ
\* while the I flag is clear
Deliverable(i) == i.kind = "NMI" \/ ~getFlag(registers, FLAG_IRQ_DISABLE)

\* the bytes one step wrote, in order
Written(log) ==
    LET writes == SelectSeq(log, LAMBDA access : access[1] = "W")
    IN  [k \in 1..Len(writes) |-> writes[k][3]]

\* the step services interrupt i: PBR (native mode only), PC and P pushed, PC
\* being the address of the instruction not yet run; PC loaded from the vector
\* of the kind and mode; the request cleared
Serviced(i) ==
    LET vector == IF registers.E
                  THEN (IF i.kind = "NMI" THEN \hFFFA ELSE \hFFFE)
                  ELSE (IF i.kind = "NMI" THEN \hFFEA ELSE \hFFEE)
        pc == << registers.PC \div \h100, registers.PC % \h100 >>
        pushed == Written(busLog')
    IN  /\ Len(pushed) = IF registers.E THEN 3 ELSE 4
        /\ SubSeq(pushed, 1, Len(pushed) - 1) =
              IF registers.E THEN pc ELSE <<registers.PBR>> \o pc
        /\ registers'.PC = MemoryRead(Mem, vector + 1) * \h100 + MemoryRead(Mem, vector)
        /\ i \notin pending'

\* C9: an interrupt the host has marked pending is sampled at instruction
\* boundaries only and then serviced: raising it changes no register; the
\* step at the boundary pushes PC and P (and PBR in native mode), loads PC from
\* the IRQ or NMI vector and skips no signature byte; the request stays
\* pending until then.
PendingInterruptServiced ==
    [][ /\ (pending' # pending /\ ~Stepping) => registers' = registers
        /\ (Stepping /\ \E i \in pending : Deliverable(i)) =>
              /\ \E i \in pending : Deliverable(i) /\ Serviced(i)
              /\ \A i \in pending : i \in pending' \/ Serviced(i)
        /\ (Stepping /\ ~\E i \in pending : Deliverable(i)) => pending' = pending ]_vars

(***************************************************************************)
(* BusSpec: the Memory alone, as the host drives it: write, loadROM and    *)
(* reset, in any order.                                                    *)
(***************************************************************************)
\* addresses in every region and mirror of getRegion, first and last bytes of
\* the windows included
BusAddresses ==
    { \h000010, \h7E0010, \h7F0010, \h001FFF, \hBF0010,
      \h002000, \h005FFF, \h802100,
      \h006000,
      \h008000, \h00FFFF, \h808000,
      \h400010, \h7D0000, \hC00010, \hFFFFFF }

BusValues == { \h5A, \hFF }

\* the images the host loads: none (an empty array), four bytes, three bytes
\* (not a power of two), a cartridge
RomImages ==
    { NoRom,
      [size |-> 4, fill |-> 0, data |-> (1 :> \h11 @@ 2 :> \h22 @@ 3 :> \h33)],
      [size |-> 3, fill |-> 0, data |-> (0 :> \hA1 @@ 2 :> \hA3)],
      Cartridge(<<\h54, \h02, \h01>>) }

\* loadROM that takes an empty array like any other
loadROM_AcceptsEmpty(mem, romData) == Ret([mem EXCEPT !.rom = romData], 1)

\* Memory::loadROM
loadROM(mem, romData) ==
    IF romData.size = 0 THEN Ret(mem, 0) ELSE Ret([mem EXCEPT !.rom = romData], 1)

\* Memory::reset
MemoryReset(mem) ==
    [mem EXCEPT !.wram = Vector(mem.wram.size, 0), !.sram = Vector(mem.sram.size, 0)]

BusInit ==
    /\ registers = ResetRegisters
    /\ totalCycles = 0
    /\ wram = NewWram
    /\ sram = NewSram
    /\ rom = NoRom
    /\ cycles = 0
    /\ last = Call("new", 0, 0)
    /\ prev = ResetRegisters
    /\ busLog = <<>>
    /\ start = ResetRegisters
    /\ steps = 0
    /\ calls = 0
    /\ pending = {}
    /\ memory = TRUE
    /\ hostCalls = 0

BusWrite(address, value) ==
    \E mem \in {MemoryWrite(Mem, address, value)} :
        /\ wram' = mem.wram
        /\ sram' = mem.sram
        /\ rom' = mem.rom
        /\ last' = Call("write", address, value)
        /\ UNCHANGED <<registers, totalCycles, cycles, prev, busLog, start, steps,
                       calls, pending, memory, hostCalls>>

BusLoadROM(romData) ==
    \E mem \in {loadROM([wram |-> wram, sram |-> sram, rom |-> rom, val |-> 0], romData)} :
        /\ rom' = mem.rom
        /\ last' = Call("loadROM", romData.size, mem.val)
        /\ UNCHANGED <<registers, totalCycles, wram, sram, cycles, prev, busLog,
                       start, steps, calls, pending, memory, hostCalls>>

BusReset ==
    \E mem \in {MemoryReset(Mem)} :
        /\ wram' = mem.wram
        /\ sram' = mem.sram
        /\ last' = Call("reset", 0, 0)
        /\ UNCHANGED <<registers, totalCycles, rom, cycles, prev, busLog, start,
                       steps, calls, pending, memory, hostCalls>>

BusNext ==
    \/ \E address \in BusAddresses, value \in BusValues : BusWrite(address, value)
    \/ \E romData \in RomImages : BusLoadROM(romData)
    \/ BusReset

BusSpec == BusInit /\ [][BusNext]_vars

\* the addresses C10 speaks of: ROM (banks 00-3F and 80-BF from offset 0x8000,
\* banks 40-7D and C0-FF) and the hardware window (banks 00-3F and 80-BF,
\* offsets 0x2000-0x5FFF)
RomOrHardware(address) ==
    LET bank == address \div \h10000
        offset == address % \h10000
        low == bank \in (\h00..\h3F) \cup (\h80..\hBF)
    IN  \/ low /\ offset >= \h8000
        \/ bank \in (\h40..\h7D) \cup (\hC0..\hFF)
        \/ low /\ offset >= \h2000 /\ offset <= \h5FFF

\* C10: a bus write to a ROM address or to the hardware window is discarded:
\* every read, of every address, returns after it what it returned before.
RomAndHardwareWritesDiscarded ==
    [][(last'.call = "write" /\ RomOrHardware(last'.arg)) =>
          \A address \in BusAddresses : MemoryRead(Mem', address) = MemoryRead(Mem, address)]_vars

\* C10's case: with a cartridge loaded, a byte that differs from the one read
\* there has been written to a ROM address, while the work RAM holds a byte
\* that an earlier write did store
RomWriteDiscarded ==
    /\ last.call = "write"
    /\ getRegion(last.arg) = "REGION_ROM"
    /\ rom.size > 0
    /\ MemoryRead(Mem, last.arg) # last.value
    /\ \E address \in DOMAIN wram.data : TRUE

\* addresses read back after each call: the first and last bytes of every
\* window, in the first and last bank of every bank range of getRegion
ProbeBanks == {\h00, \h3F, \h40, \h7D, \h7E, \h7F, \h80, \hBF, \hC0, \hFF}
ProbeOffsets == {\h0000, \h0010, \h1FFF, \h2000, \h5FFF, \h6000, \h7FFF, \h8000, \h8002, \hFFFF}
ProbeAddresses == { bank * \h10000 + offset : bank \in ProbeBanks, offset \in ProbeOffsets }

\* C11: a bus read never fails.  For every address and every ROM state (none
\* loaded, a loaded ROM of a size that is or is not a power of two) it returns
\* a byte and indexes no array outside its bounds; a read in the hardware
\* window, and a ROM-region read whose index is outside the loaded ROM,
\* returns 0xFF.
BusReadIsTotal ==
    \A address \in ProbeAddresses :
        /\ MemoryRead(Mem, address) \in 0..255
        /\ getRegion(address) = "REGION_HARDWARE" => MemoryRead(Mem, address) = \hFF
        /\ (getRegion(address) = "REGION_ROM" /\ romIndex(Mem, address) >= rom.size)
              => MemoryRead(Mem, address) = \hFF
        /\ (getRegion(address) = "REGION_ROM" /\ romIndex(Mem, address) < rom.size)
              => MemoryRead(Mem, address) = Cell(rom, romIndex(Mem, address))

\* C11's case: a ROM of three bytes is loaded, its last byte is read through a
\* ROM address whose low bits select it, and RAM holds a written byte
ThreeByteRomRead ==
    /\ rom.size = 3
    /\ MemoryRead(Mem, \hC08002) = \hA3
    /\ MemoryRead(Mem, \h7F0010) = \h5A
    /\ MemoryRead(Mem, \h006000) = \h5A


\* the Work RAM byte C12 says an address is: byte `offset` for the low window
\* of banks 00-3F and 80-BF, byte ((bank & 1) << 16) | offset for banks 7E, 7F
WorkRamByte(address) ==
    IF address \div \h10000 \in {\h7E, \h7F}
    THEN ((address \div \h10000) % 2) * \h10000 + (address % \h10000)
    ELSE address % \h10000

\* C12: Work RAM aliasing.  A byte written at a Work RAM address is read back
\* at every address that names the same Work RAM byte (the low window of each
\* bank 00-3F and 80-BF and bank 7E name bytes 0..0x1FFF; banks 7E and 7F name
\* the 128 KiB linearly), and at no address that names another byte.
WorkRamAliases ==
    [][(last'.call = "write" /\ getRegion(last'.arg) = "REGION_WRAM") =>
          \A address \in ProbeAddresses :
              getRegion(address) = "REGION_WRAM" =>
                  MemoryRead(Mem', address) =
                      IF WorkRamByte(address) = WorkRamByte(last'.arg)
                      THEN last'.value
                      ELSE MemoryRead(Mem, address)]_vars

\* C12's case: a byte written through the low window of bank BF is read back
\* through banks 00, 3F, 80 and 7E, while the same offset of bank 7F reads the
\* other byte written there
MirrorWriteReadBack ==
    /\ last = Call("write", \hBF0010, \h5A)
    /\ \A bank \in {\h00, \h3F, \h80, \h7E} : MemoryRead(Mem, bank * \h10000 + \h10) = \h5A
    /\ MemoryRead(Mem, \h7F0010) = \hFF


\* C13: loadROM with an empty array returns false and changes nothing: the ROM
\* loaded before and every RAM region read as before.  With a non-empty array
\* it returns true, and ROM-region reads then come from the new array.
LoadRomEmptyOrNot ==
    [][last'.call = "loadROM" =>
          IF last'.arg = 0
          THEN /\ last'.value = 0
               /\ rom' = rom /\ wram' = wram /\ sram' = sram
               /\ \A address \in ProbeAddresses :
                      MemoryRead(Mem', address) = MemoryRead(Mem, address)
          ELSE /\ last'.value = 1
               /\ \E romData \in RomImages :
                      /\ romData.size = last'.arg
                      /\ \A address \in ProbeAddresses :
                             getRegion(address) = "REGION_ROM" =>
                                 /\ BitAnd(address, romData.size - 1) < romData.size
                                 /\ MemoryRead(Mem', address) =
                                        Cell(romData, BitAnd(address, romData.size - 1))]_vars

\* C13's case: loadROM has just been called with an empty array while a
\* cartridge was loaded and RAM held written bytes; the cartridge is still read
EmptyLoadKeepsCartridge ==
    /\ last = Call("loadROM", 0, 0)
    /\ rom = Cartridge(<<\h54, \h02, \h01>>)
    /\ MemoryRead(Mem, \h008000) = \h54
    /\ MemoryRead(Mem, \h7E0010) = \h5A
    /\ MemoryRead(Mem, \h006000) = \hFF


(***************************************************************************)
(* StackSpec: from reset, a program that sets registers up with            *)
(* instructions and then runs a push and a pull.                           *)
(***************************************************************************)
\* the host makes at most this many executeInstruction calls in a run
MaxStackCalls == 9

\* what runs before the push: nothing (emulation mode as reset leaves it);
\* LDA #$5A TAX TAY; TSX; TCS; native mode with 8-bit registers; native mode
\* with 16-bit registers and LDA #$1234 TAX TAY TCD; the same with the index
\* registers narrowed afterwards by SEP #$10; native mode with S moved to 0x8000
StackSetups ==
    { <<>>,
      <<\hA9, \h5A, \hAA, \hA8>>,
      <<\hBA>>,
      <<\h1B>>,
      <<\h18, \hFB, \hA9, \h5A, \hAA>>,
      <<\h18, \hFB, \hC2, \h30, \hA9, \h34, \h12, \hAA, \hA8, \h5B>>,
      <<\h18, \hFB, \hC2, \h30, \hA9, \h34, \h12, \hAA, \hA8, \hE2, \h10>>,
      <<\h18, \hFB, \hC2, \h30, \hA9, \h00, \h80, \h1B>> }

\* push and pull opcodes of the same register: PHA PLA, PHX PLX, PHY PLY,
\* PHP PLP, PHD PLD, PHB PLB
PushPull ==
    { <<\h48, \h68>>, <<\hDA, \hFA>>, <<\h5A, \h7A>>,
      <<\h08, \h28>>, <<\h0B, \h2B>>, <<\h8B, \hAB>> }

StackInit ==
    /\ registers = ResetRegisters
    /\ totalCycles = 0
    /\ wram = NewWram
    /\ sram = NewSram
    /\ rom \in { Cartridge(setup \o pair) : setup \in StackSetups, pair \in PushPull }
    /\ cycles = 0
    /\ last = Call("reset", 0, 0)
    /\ prev = ResetRegisters
    /\ busLog = <<>>
    /\ start = ResetRegisters
    /\ steps = 0
    /\ calls = 0
    /\ pending = {}
    /\ memory = TRUE
    /\ hostCalls = 0

StackSpec == StackInit /\ [][StepWithin(MaxStackCalls)]_vars

\* the register a push opcode pushes, as the registers r hold it
Pushed(opcode, r) ==
    CASE opcode = \h48 -> r.A
      [] opcode = \hDA -> r.X
      [] opcode = \h5A -> r.Y
      [] opcode = \h08 -> r.P
      [] opcode = \h0B -> r.D
      [] opcode = \h8B -> r.DBR

\* C14: a push followed at once by the pull of the same register leaves that
\* register and S as they were before the push, in every register state
\* instructions can reach and at both register widths.
PushPullRoundTrip ==
    [][\A pair \in PushPull :
          (Ran(pair[1]) /\ last'.call = "step" /\ last'.arg = pair[2]) =>
              /\ Pushed(pair[1], registers') = Pushed(pair[1], prev)
              /\ registers'.SP = prev.SP]_vars

\* a round trip that does restore the register and S: PHA PLA in native mode
\* with a 16-bit accumulator of 0x1234 and the stack in page 1
WidePushPullDone ==
    /\ Ran(\h68)
    /\ ~registers.E
    /\ registers.A = \h1234
    /\ registers.SP = \h01FF
    /\ MemoryRead(Mem, \h0001FF) = \h12
    /\ MemoryRead(Mem, \h0001FE) = \h34


(***************************************************************************)
(* AluSpec: the host assigns A and P through the public `registers`        *)
(* member, as the tests do, with ADC #m, SEC or CLC, SBC #m at 00:8000,    *)
(* and calls executeInstruction.                                           *)
(***************************************************************************)
\* accumulator values and operands at the edges of both widths
AluAccumulators == {\h0000, \h0001, \h007F, \h0080, \h00FF, \h12FF, \h7FFF, \h8000, \hFFFF}
AluOperands8 == {\h00, \h01, \h7F, \h80, \hFF}
AluOperands16 == {\h0000, \h0001, \h00FF, \h7FFF, \h8000, \hFFFF}

\* E and P of the three modes: emulation, native with 8-bit registers, native
\* with 16-bit registers (carry and decimal clear)
AluModes == { <<TRUE, \h34>>, <<FALSE, \h34>>, <<FALSE, \h04>> }

\* ADC #operand, the carry made the complement of carry, SBC #operand
AluProgram(wide, operand, carry) ==
    With([imm \in {IF wide THEN <<operand % \h100, operand \div \h100>> ELSE <<operand>>} |->
        <<\h69>> \o imm \o <<IF carry = 1 THEN \h18 ELSE \h38>> \o <<\hE9>> \o imm])

AluInit ==
    /\ \E a \in AluAccumulators, mode \in AluModes, carry \in {0, 1}, decimal \in {0, FLAG_DECIMAL} :
         \E operand \in (IF mode[2] = \h04 THEN AluOperands16 ELSE AluOperands8) :
            /\ registers = [ResetRegisters EXCEPT !.A = a, !.E = mode[1],
                                                  !.P = mode[2] + carry + decimal]
            /\ rom = Cartridge(AluProgram(mode[2] = \h04, operand, carry))
    /\ totalCycles = 0
    /\ wram = NewWram
    /\ sram = NewSram
    /\ cycles = 0
    /\ last = Call("setup", 0, 0)
    /\ prev = ResetRegisters
    /\ busLog = <<>>
    /\ start = registers
    /\ steps = 0
    /\ calls = 0
    /\ pending = {}
    /\ memory = TRUE
    /\ hostCalls = 0

AluSpec == AluInit /\ [][Step]_vars

\* the width of the accumulator in the run, the operand of its ADC, its carry-in
AluWidth == IF isMemory8Bit(start) THEN \h100 ELSE \h10000
AluOperand ==
    IF isMemory8Bit(start) THEN MemoryRead(Mem, \h008001)
    ELSE MemoryRead(Mem, \h008002) * \h100 + MemoryRead(Mem, \h008001)
AluCarryIn == IF getFlag(start, FLAG_CARRY) THEN 1 ELSE 0

\* the ADC, the carry change and the SBC have run
AluDone == last.call = "step" /\ last.arg = \hE9 /\ steps = 3

\* C15, as amended: ADC #m with carry-in c, then SBC #m with the carry made the
\* complement of c, restores A modulo 2^w at both widths (and leaves the high
\* byte of A alone at 8 bits); the carry left by the SBC is the complement of
\* the carry out of the ADC: set exactly when A + m + c did not exceed the width.
AdcSbcRestoresA ==
    AluDone =>
        /\ registers.A = start.A
        /\ getFlag(registers, FLAG_CARRY) = ((start.A % AluWidth) + AluOperand + AluCarryIn < AluWidth)

\* C15's case: in 16-bit native mode A = 0xFFFF, ADC #$0001 with carry-in 1
\* wrapped to 0x0001 with a carry out, and the SBC has brought 0xFFFF back
WideAdcCarriedAndUndone ==
    /\ AluDone
    /\ ~start.E /\ AluWidth = \h10000
    /\ start.A = \hFFFF /\ AluOperand = 1 /\ AluCarryIn = 1
    /\ registers.A = \hFFFF

\* C15: ADC with the operand, then SBC with the same operand and the
\* complementary carry, restores A (mod 2^w) and restores the carry flag to
\* its value before the ADC.
AdcSbcRestoresAAndCarry ==
    AluDone =>
        /\ registers.A % AluWidth = start.A % AluWidth
        /\ getFlag(registers, FLAG_CARRY) = getFlag(start, FLAG_CARRY)


(***************************************************************************)
(* BranchSpec: the host assigns the flags, PBR and PC, with one            *)
(* conditional branch at PBR:PC, and calls executeInstruction.             *)
(***************************************************************************)
\* BEQ BNE, BCS BCC, BMI BPL, BVS BVC
BranchPairs == { <<\hF0, \hD0>>, <<\hB0, \h90>>, <<\h30, \h10>>, <<\h70, \h50>> }
BranchOpcodes == { pair[k] : pair \in BranchPairs, k \in {1, 2} }
BranchOffsets == {\h00, \h05, \h7F, \h80, \hFB, \hFF}
\* where the branch is: the program base, and the last two bytes of the bank
BranchPlaces == {\h8000, \hFFFE}
\* every setting of N, V, Z and C
BranchFlags ==
    { n + v + z + c : n \in {0, FLAG_NEGATIVE}, v \in {0, FLAG_OVERFLOW},
                      z \in {0, FLAG_ZERO}, c \in {0, FLAG_CARRY} }

BranchInit ==
    /\ \E opcode \in BranchOpcodes, offset \in BranchOffsets, place \in BranchPlaces,
          flags \in BranchFlags, bank \in {\h00, \h80}, mode \in { <<TRUE, \h34>>, <<FALSE, \h04>> } :
            /\ registers = [ResetRegisters EXCEPT !.P = mode[2] + flags, !.E = mode[1],
                                                  !.PC = place, !.PBR = bank,
                                                  !.A = \h1234, !.X = \h0056, !.Y = \h0078]
            /\ rom = [size |-> ROM_SIZE, fill |-> ROM_FILL,
                      data |-> (place :> opcode) @@ ((place + 1) :> offset)]
    /\ totalCycles = 0
    /\ wram = NewWram
    /\ sram = NewSram
    /\ cycles = 0
    /\ last = Call("setup", 0, 0)
    /\ prev = ResetRegisters
    /\ busLog = <<>>
    /\ start = registers
    /\ steps = 0
    /\ calls = 0
    /\ pending = {}
    /\ memory = TRUE
    /\ hostCalls = 0

BranchSpec == BranchInit /\ [][Step]_vars

\* the condition C16 gives each branch, on the flags of registers r
BranchCondition(opcode, r) ==
    CASE opcode = \hF0 -> getFlag(r, FLAG_ZERO)
      [] opcode = \hD0 -> ~getFlag(r, FLAG_ZERO)
      [] opcode = \hB0 -> getFlag(r, FLAG_CARRY)
      [] opcode = \h90 -> ~getFlag(r, FLAG_CARRY)
      [] opcode = \h30 -> getFlag(r, FLAG_NEGATIVE)
      [] opcode = \h10 -> ~getFlag(r, FLAG_NEGATIVE)
      [] opcode = \h70 -> getFlag(r, FLAG_OVERFLOW)
      [] opcode = \h50 -> ~getFlag(r, FLAG_OVERFLOW)

\* the offset byte of the branch at PBR:PC, as a signed number
BranchOffset == S8(MemoryRead(Mem, registers.PBR * \h10000 + U16(registers.PC + 1)))

\* C16: a conditional branch fetched at PC = p leaves PC = p + 2 if its
\* condition is false and PC = (p + 2 + signed8(offset)) mod 2^16 if it is
\* true; PBR, every other register, every flag and memory are unchanged; the
\* two branches of a pair, run on the same state, take opposite decisions.
BranchMovesOnlyPC ==
    [][(steps = 0 /\ last'.call = "step") =>
          /\ last'.arg \in BranchOpcodes
          /\ registers' =
                [registers EXCEPT !.PC =
                    IF BranchCondition(last'.arg, registers)
                    THEN (registers.PC + 2 + BranchOffset) % \h10000
                    ELSE (registers.PC + 2) % \h10000]
          /\ wram' = wram /\ sram' = sram
          /\ \A pair \in BranchPairs :
                \E m1 \in {fetchByte(Machine)} :
                   \E first \in {decodeAndExecute(m1, pair[1])}, second \in {decodeAndExecute(m1, pair[2])} :
                      /\ {first.PC, second.PC} =
                            {(registers.PC + 2) % \h10000, (registers.PC + 2 + BranchOffset) % \h10000}
                      /\ BranchOffset # 0 => first.PC # second.PC]_vars

\* C16's case: a BNE at 80:FFFE with offset -5 was taken, in native mode, and
\* PC wrapped past the end of the bank to 0xFFFB
BackwardBranchTaken ==
    /\ Ran(\hD0)
    /\ steps = 1
    /\ ~prev.E /\ ~getFlag(prev, FLAG_ZERO)
    /\ prev.PC = \hFFFE /\ prev.PBR = \h80
    /\ registers.PC = \hFFFB /\ registers.PBR = \h80


(***************************************************************************)
(* Scenario S6, under Spec.                                                *)
(***************************************************************************)
\* the program is `bytes` and exactly two instructions have run since reset
RanTwoOf(bytes) ==
    rom = Cartridge(bytes) /\ calls = 2 /\ steps = 2 /\ last.call = "step"

\* C17, as amended: from the reset state (E = 1, C = 0), SEC then XCE leaves
\* E = 1 and C = 1, since XCE swaps the carry set by SEC with E; it is CLC then
\* XCE that leaves E = 0 and C = 1.  M and X are unchanged in both.
SecXceKeepsEmulation ==
    /\ RanTwoOf(<<\h38, \hFB>>) =>
          /\ registers.E
          /\ getFlag(registers, FLAG_CARRY)
          /\ BitAnd(registers.P, \h30) = BitAnd(ResetRegisters.P, \h30)
    /\ RanTwoOf(<<\h18, \hFB>>) =>
          /\ ~registers.E
          /\ getFlag(registers, FLAG_CARRY)
          /\ BitAnd(registers.P, \h30) = BitAnd(ResetRegisters.P, \h30)

\* C17's case: SEC and then XCE have run from reset, XCE finding the carry set
SecXceRan ==
    /\ RanTwoOf(<<\h38, \hFB>>)
    /\ Ran(\hFB)
    /\ prev.E /\ getFlag(prev, FLAG_CARRY)
    /\ ~getFlag(ResetRegisters, FLAG_CARRY)

\* C17: scenario S6.  From the reset state (E = 1, C = 0), SEC then XCE yields
\* E = 0 and C = 1, with M and X unchanged.
ScenarioS6 ==
    RanTwoOf(<<\h38, \hFB>>) =>
        /\ ~registers.E
        /\ getFlag(registers, FLAG_CARRY)
        /\ BitAnd(registers.P, \h30) = BitAnd(ResetRegisters.P, \h30)


(***************************************************************************)
(* JsrSpec: the host assigns PC, PBR and SP, as testJumpSubroutine does,   *)
(* with JSR target at PBR:PC and RTS at the target, and calls              *)
(* executeInstruction.                                                     *)
(***************************************************************************)
\* where the JSR is: the program base, and the last three bytes of the bank
JsrPlaces == {\h8000, \hFFFD}
JsrTargets == {\h9000, \hA5C3}
\* E, P and SP: emulation mode with the stack at the top, at the bottom and one
\* above the bottom of page 1, and at 0x0000, where TCS or TXS run after reset
\* leaves it; native mode with the stack in page 1, at the top of the low Work
\* RAM window, at the top of Save RAM and in ROM
JsrStacks ==
    { <<TRUE, \h34, \h01FF>>, <<TRUE, \h34, \h0100>>, <<TRUE, \h34, \h0101>>,
      <<TRUE, \h34, \h0000>>,
      <<FALSE, \h04, \h01FF>>, <<FALSE, \h04, \h1FFF>>, <<FALSE, \h34, \h7FFF>>,
      <<FALSE, \h04, \h8000>> }

JsrInit ==
    /\ \E place \in JsrPlaces, target \in JsrTargets, bank \in {\h00, \h80}, stack \in JsrStacks :
            /\ registers = [ResetRegisters EXCEPT !.E = stack[1], !.P = stack[2], !.SP = stack[3],
                                                  !.PC = place, !.PBR = bank]
            /\ rom = [size |-> ROM_SIZE, fill |-> ROM_FILL,
                      data |-> (place :> \h20) @@ ((place + 1) :> (target % \h100))
                               @@ ((place + 2) :> (target \div \h100)) @@ (target :> \h60)]
    /\ totalCycles = 0
    /\ wram = NewWram
    /\ sram = NewSram
    /\ cycles = 0
    /\ last = Call("setup", 0, 0)
    /\ prev = ResetRegisters
    /\ busLog = <<>>
    /\ start = registers
    /\ steps = 0
    /\ calls = 0
    /\ pending = {}
    /\ memory = TRUE
    /\ hostCalls = 0

JsrSpec == JsrInit /\ [][Step]_vars

\* the stack address below and above s, as registers r address the stack: within
\* page 1 in emulation mode, modulo 2^16 in native mode
StackBelow(r, s) == IF r.E THEN \h0100 + ((s - 1) % \h100) ELSE (s - 1) % \h10000
StackAbove(r, s) == IF r.E THEN \h0100 + ((s + 1) % \h100) ELSE (s + 1) % \h10000

\* C18: JSR absolute fetched at p pushes p + 2, high byte first, so that it is
\* read back low byte first from S + 1 (the next stack address above S) after
\* the push, sets PC to the 16-bit target and leaves PBR unchanged; an RTS run
\* next sets PC = p + 3 and restores S to its value before the JSR.
JsrRtsRoundTrip ==
    [][/\ (steps = 0 /\ last'.call = "step") =>
             /\ last'.arg = \h20
             /\ SelectSeq(busLog', LAMBDA access : access[1] = "W") =
                   << <<"W", registers.SP, ((registers.PC + 2) % \h10000) \div \h100>>,
                      <<"W", StackBelow(registers, registers.SP), (registers.PC + 2) % \h100>> >>
             /\ MemoryRead(Mem', StackAbove(registers', registers'.SP)) = (registers.PC + 2) % \h100
             /\ MemoryRead(Mem', StackAbove(registers', StackAbove(registers', registers'.SP)))
                   = ((registers.PC + 2) % \h10000) \div \h100
             /\ registers'.PC = MemoryRead(Mem, registers.PBR * \h10000 + ((registers.PC + 2) % \h10000)) * \h100
                                + MemoryRead(Mem, registers.PBR * \h10000 + ((registers.PC + 1) % \h10000))
             /\ registers'.PC \in JsrTargets
             /\ registers'.PBR = registers.PBR
       /\ (steps = 1 /\ last'.call = "step") =>
             /\ last'.arg = \h60
             /\ registers'.PC = (start.PC + 3) % \h10000
             /\ registers'.SP = start.SP
             /\ registers'.PBR = start.PBR]_vars

\* C18's failing case: in emulation mode with S = 0x0000, a JSR at 00:8000 and
\* the RTS at its target have run; the high byte of the return address went to
\* 0x000000 and the low byte to 0x0001FF, the RTS pulled from 0x0001FF and
\* 0x000100, and the processor is at 0x0003 with S = 0x0100
JsrRtsLostReturn ==
    /\ Ran(\h60)
    /\ steps = 2
    /\ start.E /\ start.SP = \h0000 /\ start.PC = \h8000 /\ start.PBR = \h00
    /\ MemoryRead(Mem, \h000000) = \h80 /\ MemoryRead(Mem, \h0001FF) = \h02
    /\ registers.PC = \h0003 /\ registers.SP = \h0100


(***************************************************************************)
(* LoopSpec: testCounterLoop.  The counter-loop program is loaded at       *)
(* 00:8000 in a ROM padded with NOP, the processor is reset, and the host  *)
(* calls executeInstruction again and again.                               *)
(***************************************************************************)
\* LDX #$00 / loop: INX / CPX #$0A / BNE loop / STX $1000
CounterLoop == <<\hA2, \h00, \hE8, \hE0, \h0A, \hD0, \hFB, \h8E, \h00, \h10>>

\* executeInstruction calls the host makes: the 32 the program takes, and two more
MaxLoopCalls == 34

\* what Work RAM holds at 0x1000 and 0x1001 before the program runs
LoopMemories ==
    { SetCell(SetCell(NewWram, \h1000, counter), \h1001, beside) :
          counter \in {\h00, \h0A, \hFF}, beside \in {\h00, \h55} }

LoopInit ==
    /\ registers = ResetRegisters
    /\ totalCycles = 0
    /\ wram \in LoopMemories
    /\ sram = NewSram
    /\ rom = Cartridge(CounterLoop)
    /\ cycles = 0
    /\ last = Call("setup", 0, 0)
    /\ prev = ResetRegisters
    /\ busLog = <<>>
    /\ start = registers
    /\ steps = 0
    /\ calls = 0
    /\ pending = {}
    /\ memory = TRUE
    /\ hostCalls = 0

LoopStep == StepWithin(MaxLoopCalls)

\* the host's loop keeps calling executeInstruction: a step that can be taken is taken
LoopSpec == LoopInit /\ [][LoopStep]_vars /\ WF_vars(LoopStep)

\* the STX has just run and left PC at 0x800A
StxDone == Ran(\h8E) /\ registers.PC = \h800A /\ registers.PBR = \h00

\* C19 (scenario S3): from reset with the counter loop at 00:8000, repeated
\* stepping eventually executes the STX and reaches PC = 0x800A, and whenever
\* that has happened the low byte of X is 0x0A and the byte read at bank 0
\* offset 0x1000 is 0x0A; PC is not 0x800A before the STX has run.
CounterLoopStoresTen ==
    /\ <>StxDone
    /\ [](StxDone => /\ BitAnd(registers.X, \hFF) = \h0A
                     /\ MemoryRead(Mem, \h001000) = \h0A)
    /\ []((registers.PC = \h800A /\ steps > 0) => StxDone)

\* C19's case: the 32nd step was the STX, over a Work RAM that held 0xFF at
\* 0x1000 and 0x55 beside it; ten passes of the loop were counted
CounterLoopFinished ==
    /\ StxDone
    /\ steps = 32
    /\ registers.X = \h0A
    /\ MemoryRead(Mem, \h001000) = \h0A
    /\ MemoryRead(Mem, \h001001) = \h55
    /\ busLog[Len(busLog)] = <<"W", \h001000, \h0A>>


(***************************************************************************)
(* UnknownSpec: the host assigns the registers, the byte at PBR:PC is an   *)
(* opcode the switch of decodeAndExecute has no case for, and the host     *)
(* calls executeInstruction.                                               *)
(***************************************************************************)
Undispatched == (0..255) \ Dispatched

\* where the opcode is: the program base, and the last byte of the bank
UnknownPlaces == {\h8000, \hFFFF}

\* the byte after the opcode: two opcodes without a case, and NOP
UnknownFollowers == {\hFF, \h80, \hEA}

\* the registers the host assigns: the reset state, and 16-bit native mode with
\* every register and every flag but M and X set
UnknownRegisters ==
    { ResetRegisters,
      [A |-> \h1234, X |-> \h5678, Y |-> \h9ABC, SP |-> \h1FF0, PC |-> \h8000, P |-> \hCF,
       DBR |-> \h7E, PBR |-> \h80, D |-> \h4321, E |-> FALSE] }

UnknownInit ==
    /\ \E r \in UnknownRegisters, place \in UnknownPlaces,
          opcode \in Undispatched, follower \in UnknownFollowers :
            /\ registers = [r EXCEPT !.PC = place]
            /\ rom = SetCell(SetCell(Vector(ROM_SIZE, ROM_FILL), place, opcode),
                             (place + 1) % \h10000, follower)
    /\ totalCycles = 0
    /\ wram = SetCell(NewWram, \h0000, \hFF)
    /\ sram = NewSram
    /\ cycles = 0
    /\ last = Call("setup", 0, 0)
    /\ prev = ResetRegisters
    /\ busLog = <<>>
    /\ start = registers
    /\ steps = 0
    /\ calls = 0
    /\ pending = {}
    /\ memory = TRUE
    /\ hostCalls = 0

UnknownSpec == UnknownInit /\ [][Step]_vars

\* C20: a step whose opcode byte has no dispatch entry returns 2 cycles,
\* advances PC by exactly 1 (in 16 bits) and leaves every other register, every
\* flag and every memory byte unchanged; it writes nothing on the bus and the
\* processor can be stepped again afterwards.
UnknownOpcodeIsNop ==
    [][(last'.call = "step" /\ last'.arg \notin Dispatched) =>
          /\ cycles' = 2
          /\ totalCycles' = totalCycles + 2
          /\ registers' = [registers EXCEPT !.PC = (registers.PC + 1) % \h10000]
          /\ wram' = wram /\ sram' = sram /\ rom' = rom
          /\ busLog' = << <<"R", registers.PBR * \h10000 + registers.PC, last'.arg>> >>
          /\ (calls' < MaxCalls => ENABLED Step)]_vars

\* C20's case: in 16-bit native mode with every register set, opcode 0x80 at
\* 80:FFFF was stepped and after it opcode 0xFF fetched from Work RAM: PC went
\* from 0xFFFF over 0x0000 to 0x0001, two cycles each, nothing else changed
UnknownOpcodesStepped ==
    /\ Ran(\hFF)
    /\ steps = 2
    /\ start.PC = \hFFFF /\ start.PBR = \h80 /\ ~start.E
    /\ MemoryRead(Mem, \h80FFFF) = \h80
    /\ registers = [start EXCEPT !.PC = \h0001]
    /\ cycles = 2 /\ totalCycles = 4


(***************************************************************************)
(* ModeSpec: the host assigns the registers, as the repository's tests do, *)
(* one instruction (any opcode byte, two operand bytes) is at 00:8000 in a *)
(* NOP-padded ROM that holds the four BRK and COP vectors, and the host    *)
(* calls executeInstruction and reset.                                     *)
(***************************************************************************)
\* the registers the host assigns before the instruction
ModeRegisters ==
    { \* the reset state
      ResetRegisters,
      \* emulation mode with carry set and the stack in the middle of page 1
      [ResetRegisters EXCEPT !.P = \h35, !.SP = \h0180, !.A = \h12FF],
      \* native mode, 16-bit accumulator and index registers
      [A |-> \h1234, X |-> \h5678, Y |-> \h9ABC, SP |-> \h1FF0, PC |-> \h8000, P |-> \h00,
       DBR |-> \h7E, PBR |-> \h00, D |-> \h0010, E |-> FALSE],
      \* the same widths with carry and decimal set, the direct page at the top of bank
      \* 0, the program in bank 0x80 (which maps the same ROM as bank 0)
      [A |-> \h8001, X |-> \h0100, Y |-> \h0100, SP |-> \h1FF0, PC |-> \h8000, P |-> \h09,
       DBR |-> \h7E, PBR |-> \h80, D |-> \hFFF0, E |-> FALSE],
      \* 8-bit accumulator, 16-bit index registers
      [A |-> \h1234, X |-> \h1000, Y |-> \h1000, SP |-> \h1FF0, PC |-> \h8000, P |-> \h20,
       DBR |-> \h00, PBR |-> \h00, D |-> \h0000, E |-> FALSE],
      \* 16-bit accumulator, 8-bit index registers
      [A |-> \h1234, X |-> \h0034, Y |-> \h0034, SP |-> \h01FF, PC |-> \h8000, P |-> \h11,
       DBR |-> \h7E, PBR |-> \h00, D |-> \h0100, E |-> FALSE],
      \* 8-bit accumulator and index registers in native mode
      [A |-> \h1234, X |-> \h0002, Y |-> \h0003, SP |-> \h01FF, PC |-> \h8000, P |-> \h30,
       DBR |-> \h7E, PBR |-> \h00, D |-> \h0000, E |-> FALSE] }

\* the two bytes after the opcode
ModeOperands == { <<\h10, \h00>>, <<\h00, \h70>>, <<\h34, \h12>>, <<\hF0, \hFF>> }

\* the BRK and COP vectors of the cartridge: COP and BRK in native mode, COP
\* and BRK in emulation mode
VectorBytes ==
    (\hFFE4 :> \h10) @@ (\hFFE5 :> \hA0) @@ (\hFFE6 :> \h20) @@ (\hFFE7 :> \hB0) @@
    (\hFFF4 :> \h30) @@ (\hFFF5 :> \hC0) @@ (\hFFFE :> \h40) @@ (\hFFFF :> \hD0)

\* memory.write(address, value) for each <<address, value>> of writes, in order
RECURSIVE HostWrites(_, _)
HostWrites(mem, writes) ==
    IF writes = <<>> THEN mem
    ELSE HostWrites(MemoryWrite(mem, Head(writes)[1], Head(writes)[2]), Tail(writes))

\* the 16-bit pointer 0x9040 written by the host at address in bank 0
PointerAt(address) == << <<address % \h10000, \h40>>, <<(address + 1) % \h10000, \h90>> >>

\* memory before the instruction: pointers where the direct and absolute
\* operands of the instruction lead in bank 0, bytes in Work RAM that differ
\* from the ROM bytes at the same offsets of bank 0, and a byte above the stack
\* pointer that has the X bit set when it is pulled into P
ModeMemory(r, operand, cartridge) ==
    HostWrites([wram |-> NewWram, sram |-> NewSram, rom |-> cartridge],
               << <<\h7E9040, \h5A>>, <<\h7E9041, \hA5>>, <<\h7E8000, \h77>>,
                  <<\h000000 + ((r.SP + 1) % \h10000), \h10>> >>
               \o PointerAt(r.D + operand[1] + r.X)
               \o PointerAt(r.D + operand[1] + (r.X % \h100))
               \o PointerAt(r.D + operand[1])
               \o PointerAt(operand[2] * \h100 + operand[1]))

ModeInit ==
    /\ \E r \in ModeRegisters, opcode \in 0..255, operand \in ModeOperands :
         \E mem \in {ModeMemory(r, operand,
                        [size |-> ROM_SIZE, fill |-> ROM_FILL,
                         data |-> [i \in {j \in {\h8000, \h8001, \h8002} :
                                            (\h8000 :> opcode @@ \h8001 :> operand[1]
                                             @@ \h8002 :> operand[2])[j] # ROM_FILL}
                                    |-> (\h8000 :> opcode @@ \h8001 :> operand[1]
                                         @@ \h8002 :> operand[2])[i]]
                                  @@ VectorBytes])} :
            /\ registers = r
            /\ rom = mem.rom
            /\ wram = mem.wram
            /\ sram = mem.sram
    /\ totalCycles = 0
    /\ cycles = 0
    /\ last = Call("setup", 0, 0)
    /\ prev = ResetRegisters
    /\ busLog = <<>>
    /\ start = registers
    /\ steps = 0
    /\ calls = 0
    /\ pending = {}
    /\ memory = TRUE
    /\ hostCalls = 0

\* the host makes at most this many calls in a run of ModeSpec
MaxModeCalls == 3

ModeNext ==
    \/ StepWithin(MaxModeCalls)
    \/ ResetWithin(MaxModeCalls)
    \/ SetFlagWithin(MaxModeCalls)
    \/ SetMemoryWithin(MaxModeCalls)

ModeSpec == ModeInit /\ [][ModeNext]_vars


\* LDA and STA in the addressing modes the specification lists, with the number
\* of operand bytes of each mode (immediate: by the accumulator width)
LoadOpcodes == {\hA9, \hA5, \hB5, \hAD, \hBD, \hB9, \hA1, \hB1}
StoreOpcodes == {\h85, \h95, \h8D, \h9D, \h99, \h81, \h91}
OperandBytes(opcode, r) ==
    IF opcode = \hA9 THEN (IF isMemory8Bit(r) THEN 1 ELSE 2)
    ELSE IF opcode \in {\hAD, \hBD, \hB9, \h8D, \h9D, \h99} THEN 2
    ELSE 1

\* the first step of the behaviour is being taken
FirstStep == steps = 0 /\ last'.call = "step" /\ last.call = "setup"

\* C21: for LDA and STA in each listed addressing mode, one step advances PC
\* past the opcode and all of its operand bytes and performs the load (the last
\* bus access is a read after the instruction's bytes, and its value is in A) or
\* the store (the last bus access is a write of A's last byte); none is run as a
\* one-byte no-op.
LoadStoreModesDispatched ==
    [][(FirstStep /\ last'.arg \in LoadOpcodes \cup StoreOpcodes) =>
          /\ registers'.PC = \h8000 + 1 + OperandBytes(last'.arg, registers)
          /\ last'.arg \in LoadOpcodes =>
                /\ busLog'[Len(busLog')][1] = "R"
                /\ (last'.arg # \hA9 => Len(busLog') > 1 + OperandBytes(last'.arg, registers))
                /\ busLog'[Len(busLog')][3] =
                      (IF isMemory8Bit(registers) THEN registers'.A % \h100
                       ELSE registers'.A \div \h100)
          /\ last'.arg \in StoreOpcodes =>
                /\ busLog'[Len(busLog')][1] = "W"
                /\ busLog'[Len(busLog')][3] =
                      (IF isMemory8Bit(registers) THEN registers.A % \h100
                       ELSE registers.A \div \h100)]_vars

\* C21's case: LDA direct (0xA5) was stepped with a 16-bit accumulator: PC moved
\* by one byte only, nothing but the opcode was read and A is as it was
LdaDirectRanAsNop ==
    /\ Ran(\hA5)
    /\ steps = 1
    /\ ~start.E /\ ~isMemory8Bit(start)
    /\ registers = [start EXCEPT !.PC = \h8001]
    /\ busLog = << <<"R", \h008000, \hA5>> >>


\* C22: every executeInstruction call returns a cycle count c >= 1 and adds
\* exactly c to totalCycles, so totalCycles strictly increases with every step;
\* reset sets it to 0 and it is 0 before the first step, so between resets it is
\* the sum of the counts returned since the last reset.  (The host's setFlag
\* and setMemory leave it as it is.)
CycleAccounting ==
    [][/\ last'.call = "step" =>
             /\ cycles' >= 1
             /\ totalCycles' = totalCycles + cycles'
             /\ totalCycles' > totalCycles
       /\ last.call \in {"setup", "reset"} => totalCycles = 0
       /\ last'.call = "reset" => totalCycles' = 0 /\ steps' = 0
       /\ last'.call \in {"setFlag", "setMemory"} => totalCycles' = totalCycles]_vars

\* C22's case: after a reset, a 3-cycle instruction and a 2-cycle instruction
\* were stepped: totalCycles is 5, the sum of the two
CyclesSummedSinceReset ==
    /\ last.call = "step"
    /\ hostCalls = 0
    /\ calls = 3 /\ steps = 2
    /\ cycles = 2
    /\ totalCycles = 5


\* C23: whenever an instruction changes the X flag (P bit 4) from 0 to 1 (SEP,
\* PLP or RTI in native mode, XCE entering emulation mode), the high bytes of
\* X and Y are 0 after that instruction.
NarrowingClearsIndexHighBytes ==
    [][(last'.call = "step" /\ ~isIndex8Bit(registers) /\ isIndex8Bit(registers')) =>
          /\ registers'.X < \h100
          /\ registers'.Y < \h100]_vars

\* C23's case: SEP #$10 was stepped in native mode with X = 0x5678 and
\* Y = 0x9ABC: the X flag is now 1 and both registers are as they were
SepLeftIndexHighBytes ==
    /\ Ran(\hE2)
    /\ steps = 1
    /\ ~start.E /\ ~isIndex8Bit(start) /\ isIndex8Bit(registers)
    /\ registers.P = \h10
    /\ registers.X = \h5678 /\ registers.Y = \h9ABC


\* the data access of an instruction with a two-byte operand: the bus access
\* after the opcode and operand fetches
DataAccess(log) == log[4]

\* opcodes with Absolute,X and with Absolute,Y addressing that the switch has
\* cases for, paired by operation: STA, ADC, SBC, AND, ORA, EOR, CMP (LDA has
\* Absolute,X only)
AbsoluteXY ==
    { <<\h9D, \h99>>, <<\h7D, \h79>>, <<\hFD, \hF9>>, <<\h3D, \h39>>,
      <<\h1D, \h19>>, <<\h5D, \h59>>, <<\hDD, \hD9>> }
AbsoluteXOpcodes == {\hBD} \cup {pair[1] : pair \in AbsoluteXY}

\* C24: for every DBR, 16-bit operand lo16 and X, Absolute,X addressing yields
\* the address whose bank is DBR and whose offset is (lo16 + X) mod 2^16 (seen
\* as the address of the instruction's data access), which is the address
\* Absolute,Y yields when Y = X.
AbsoluteXStaysInDataBank ==
    [][(FirstStep /\ last'.arg \in AbsoluteXOpcodes) =>
          /\ Len(busLog') >= 4
          /\ DataAccess(busLog')[2] =
                registers.DBR * \h10000
                + ((busLog'[3][3] * \h100 + busLog'[2][3] + registers.X) % \h10000)
          /\ \A pair \in AbsoluteXY :
                pair[1] = last'.arg =>
                   DataAccess(busLog')[2] =
                      DataAccess(decodeAndExecute(
                          fetchByte(MachineOf([registers EXCEPT !.Y = registers.X],
                                              wram, sram, SetCell(rom, \h8000, pair[2]))),
                          pair[2]).bus)[2]]_vars

\* C24's case: LDA $7000,X was stepped with DBR = 0x7E and X = 0x5678: the data
\* was read from bank 0xFF, offset 0xC678 (ROM), not from 7E:C678 (Work RAM)
AbsoluteXLeftDataBank ==
    /\ Ran(\hBD)
    /\ steps = 1
    /\ start.DBR = \h7E /\ start.X = \h5678
    /\ busLog[2][3] = \h00 /\ busLog[3][3] = \h70
    /\ DataAccess(busLog) = <<"R", \hFFC678, \hEA>>
    /\ MemoryRead(Mem, \h7EC678) = \h00


\* the operand of an index-width immediate instruction in state r: one byte at
\* 00:8001 when the X flag is 1, two bytes (low byte first) when it is 0
IndexOperand(r) ==
    IF isIndex8Bit(r) THEN MemoryRead(Mem, \h008001)
    ELSE MemoryRead(Mem, \h008002) * \h100 + MemoryRead(Mem, \h008001)

\* a register at index width
AtIndexWidth(r, value) == IF isIndex8Bit(r) THEN value % \h100 ELSE value

\* C25: LDX, LDY, CPX and CPY immediate take a 1-byte operand when the X flag is
\* 1 and a 2-byte operand when it is 0, whatever the M flag is: one step moves
\* PC by 2 or by 3 accordingly, and the value loaded or compared is the operand
\* read at index width.
IndexImmediateWidth ==
    [][(FirstStep /\ last'.arg \in {\hA2, \hA0, \hE0, \hC0}) =>
          /\ registers'.PC = \h8000 + (IF isIndex8Bit(registers) THEN 2 ELSE 3)
          /\ last'.arg = \hA2 => registers'.X = IndexOperand(registers)
          /\ last'.arg = \hA0 => registers'.Y = IndexOperand(registers)
          /\ last'.arg = \hE0 =>
                /\ getFlag(registers', FLAG_ZERO)
                      = (AtIndexWidth(registers, registers.X) = IndexOperand(registers))
                /\ getFlag(registers', FLAG_CARRY)
                      = (AtIndexWidth(registers, registers.X) >= IndexOperand(registers))
          /\ last'.arg = \hC0 =>
                /\ getFlag(registers', FLAG_ZERO)
                      = (AtIndexWidth(registers, registers.Y) = IndexOperand(registers))
                /\ getFlag(registers', FLAG_CARRY)
                      = (AtIndexWidth(registers, registers.Y) >= IndexOperand(registers))]_vars

\* C25's case: LDX #$1234 was stepped with M = 1 and X = 0 (8-bit accumulator,
\* 16-bit index registers): X holds the 2-byte operand and PC moved by 2 only,
\* onto the operand's high byte
LdxImmediateStoppedShort ==
    /\ Ran(\hA2)
    /\ steps = 1
    /\ ~start.E /\ isMemory8Bit(start) /\ ~isIndex8Bit(start)
    /\ registers.X = \h1234
    /\ registers.PC = \h8002
    /\ MemoryRead(Mem, \h008002) = \h12


\* opcodes the switch dispatches with Direct, Direct,X and Direct,Y addressing
DirectOpcodes == {\h85, \hA6, \hA4, \h65, \hC5}
DirectXOpcodes == {\hB4, \h94, \h75, \hD5}
DirectYOpcodes == {\hB6, \h96}

\* the offset the specification gives for the direct modes, before it is taken
\* modulo 2^16: the index is the full register
DirectSum(opcode, r, lo8) ==
    r.D + lo8 + (IF opcode \in DirectXOpcodes THEN r.X
                 ELSE IF opcode \in DirectYOpcodes THEN r.Y ELSE 0)

\* C26: Direct, Direct,X and Direct,Y addressing yield an address in bank 0 with
\* offset (D + lo8), (D + lo8 + X) or (D + lo8 + Y) modulo 2^16, the index being
\* the full register; the address is never outside bank 0.  The address is seen
\* as the address of the data access that follows the opcode and operand fetch.
DirectStaysInBankZero ==
    [][(FirstStep /\ last'.arg \in DirectOpcodes \cup DirectXOpcodes \cup DirectYOpcodes) =>
          /\ Len(busLog') >= 3
          /\ busLog'[3][2] < \h010000
          /\ busLog'[3][2] = DirectSum(last'.arg, registers, busLog'[2][3]) % \h10000]_vars

\* C26's case: LDY $10,X was stepped with D = 0xFFF0 and X = 0x0100 (16-bit
\* index registers): the data was read at 01:0000, in bank 1 and without the
\* high byte of X, where the specification gives 00:0100
DirectXLeftBankZero ==
    /\ Ran(\hB4)
    /\ steps = 1
    /\ ~isIndex8Bit(start) /\ start.D = \hFFF0 /\ start.X = \h0100
    /\ busLog[2] = <<"R", \h808001, \h10>>
    /\ busLog[3][2] = \h010000
    /\ DirectSum(\hB4, start, \h10) % \h10000 = \h0100


\* opcodes the switch dispatches with Indirect,X and Indirect,Y addressing: ADC,
\* AND, ORA, EOR, CMP, SBC
IndirectXOpcodes == {\h61, \h21, \h01, \h41, \hC1, \hE1}
IndirectYOpcodes == {\h71, \h31, \h11, \h51, \hD1, \hF1}

\* the 16-bit pointer at address and address + 1 of bank 0
PointerInBankZero(address) ==
    MemoryRead(Mem, (address + 1) % \h10000) * \h100 + MemoryRead(Mem, address % \h10000)

\* C27: Indirect,X and Indirect,Y addressing read a 16-bit pointer from bank 0,
\* at 0:(D + lo8 + X) and at 0:(D + lo8), and yield an address in the data
\* bank: DBR:pointer and DBR:pointer + Y, for every DBR.  The address is seen as
\* the address of the data access that follows the two pointer reads.
IndirectUsesDataBank ==
    [][(FirstStep /\ last'.arg \in IndirectXOpcodes \cup IndirectYOpcodes) =>
          /\ Len(busLog') >= 5
          /\ last'.arg \in IndirectXOpcodes =>
                /\ busLog'[3][2] = (registers.D + busLog'[2][3] + registers.X) % \h10000
                /\ busLog'[5][2] =
                      registers.DBR * \h10000
                      + PointerInBankZero(registers.D + busLog'[2][3] + registers.X)
          /\ last'.arg \in IndirectYOpcodes =>
                /\ busLog'[3][2] = (registers.D + busLog'[2][3]) % \h10000
                /\ busLog'[5][2] =
                      (registers.DBR * \h10000
                       + PointerInBankZero(registers.D + busLog'[2][3]) + registers.Y)
                      % \h1000000]_vars

\* C27's case: ORA ($00,X) was stepped with DBR = 0x7E, D = 0 and X = 0x0002 (8-bit
\* index registers): the pointer 0x9040 was read at 00:0002 and the data at
\* 00:9040 (ROM), not at 7E:9040 (Work RAM, 0x5A)
IndirectXReadBankZero ==
    /\ Ran(\h01)
    /\ steps = 1
    /\ start.DBR = \h7E /\ start.D = \h0000 /\ start.X = \h0002
    /\ busLog[2] = <<"R", \h008001, \h00>>
    /\ busLog[3] = <<"R", \h000002, \h40>>
    /\ busLog[4] = <<"R", \h000003, \h90>>
    /\ busLog[5] = <<"R", \h009040, \hEA>>
    /\ MemoryRead(Mem, \h7E9040) = \h5A


\* C28: JMP absolute indirect (0x6C) reads its 16-bit target pointer from bank
\* 0 at 0:lo16, whatever DBR is, then sets PC to that pointer and leaves PBR
\* unchanged.
JmpIndirectReadsBankZero ==
    [][(FirstStep /\ last'.arg = \h6C) =>
          /\ Len(busLog') = 5
          /\ busLog'[4][2] = busLog'[3][3] * \h100 + busLog'[2][3]
          /\ busLog'[5][2] = (busLog'[3][3] * \h100 + busLog'[2][3] + 1) % \h10000
          /\ registers'.PC = PointerInBankZero(busLog'[3][3] * \h100 + busLog'[2][3])
          /\ registers'.PBR = registers.PBR]_vars

\* C28's case: JMP ($7000) was stepped with DBR = 0x7E and the pointer 0x9040 at
\* 00:7000: the pointer bytes were read at 7E:7000 and 7E:7001 (Work RAM, zero)
\* and PC is 0x0000, not 0x9040
JmpIndirectReadDataBank ==
    /\ Ran(\h6C)
    /\ steps = 1
    /\ start.DBR = \h7E
    /\ busLog[4] = <<"R", \h7E7000, \h00>>
    /\ busLog[5] = <<"R", \h7E7001, \h00>>
    /\ PointerInBankZero(\h7000) = \h9040
    /\ registers.PC = \h0000 /\ registers.PBR = \h00


\* P with the carry bit replaced by the truth value c
WithCarry(p, c) == (p - (p % 2)) + (IF c THEN 1 ELSE 0)

\* C29: XCE exchanges C and E.  When the resulting E is 1 it also sets M = 1 and
\* X = 1, clears the high bytes of X and Y and sets S to 0x0100 | (S & 0xFF);
\* when the resulting E is 0 it changes nothing except C and E.  (PC moves past
\* the opcode; memory is untouched.)
XceExchanges ==
    [][(last'.call = "step" /\ last'.arg = \hFB) =>
          /\ registers'.E = getFlag(registers, FLAG_CARRY)
          /\ getFlag(registers', FLAG_CARRY) = registers.E
          /\ registers' =
                IF getFlag(registers, FLAG_CARRY)
                THEN [registers EXCEPT
                         !.PC = (@ + 1) % \h10000,
                         !.E = TRUE,
                         !.P = BitOr(WithCarry(@, registers.E), \h30),
                         !.X = @ % \h100,
                         !.Y = @ % \h100,
                         !.SP = \h0100 + (@ % \h100)]
                ELSE [registers EXCEPT
                         !.PC = (@ + 1) % \h10000,
                         !.E = FALSE,
                         !.P = WithCarry(@, registers.E)]
          /\ wram' = wram /\ sram' = sram /\ rom' = rom]_vars

\* C29's case: XCE was stepped in native mode with carry set, 16-bit registers,
\* X = Y = 0x0100 and S = 0x1FF0: the processor is in emulation mode with carry
\* clear, M = X = 1, X = Y = 0 and S = 0x01F0
XceEnteredEmulation ==
    /\ Ran(\hFB)
    /\ steps = 1
    /\ ~start.E /\ start.P = \h09 /\ start.X = \h0100 /\ start.SP = \h1FF0
    /\ registers.E
    /\ registers.P = \h38
    /\ registers.X = 0 /\ registers.Y = 0
    /\ registers.SP = \h01F0


\* the vector of BRK (0x00) and COP (0x02) in emulation and in native mode
VectorOf(opcode, r) ==
    IF opcode = \h00 THEN (IF r.E THEN \hFFFE ELSE \hFFE6)
    ELSE (IF r.E THEN \hFFF4 ELSE \hFFE4)

\* the bytes an instruction wrote on the bus, with their addresses, in order
Writes(log) == SelectSeq(log, LAMBDA access : access[1] = "W")

\* C30: BRK and COP skip one signature byte; in emulation mode they push PC
\* (high byte, low byte) then P, 3 bytes; in native mode PBR, then PC, then P, 4
\* bytes; then they set I, clear D, load PC little-endian from the vector (BRK:
\* 00:FFFE in emulation, 00:FFE6 in native; COP: 00:FFF4 and 00:FFE4) and set
\* PBR to 0.
BrkCopSequence ==
    [][(FirstStep /\ last'.arg \in {\h00, \h02}) =>
          /\ Writes(busLog') =
                IF registers.E
                THEN << <<"W", registers.SP, \h80>>,
                        <<"W", StackBelow(registers, registers.SP), \h02>>,
                        <<"W", StackBelow(registers, StackBelow(registers, registers.SP)),
                          registers.P>> >>
                ELSE << <<"W", registers.SP, registers.PBR>>,
                        <<"W", registers.SP - 1, \h80>>,
                        <<"W", registers.SP - 2, \h02>>,
                        <<"W", registers.SP - 3, registers.P>> >>
          /\ busLog'[Len(busLog') - 1][2] = VectorOf(last'.arg, registers)
          /\ busLog'[Len(busLog')][2] = VectorOf(last'.arg, registers) + 1
          /\ registers' =
                [registers EXCEPT
                    !.SP = IF registers.E
                           THEN StackBelow(registers, StackBelow(registers,
                                    StackBelow(registers, @)))
                           ELSE @ - 4,
                    !.P = BitAnd(BitOr(@, FLAG_IRQ_DISABLE), Not8(FLAG_DECIMAL)),
                    !.PC = VectorBytes[VectorOf(last'.arg, registers) + 1] * \h100
                           + VectorBytes[VectorOf(last'.arg, registers)],
                    !.PBR = 0]]_vars

\* C30's case: COP was stepped in native mode in bank 0x80 with the decimal flag
\* set: four bytes are on the stack (0x80, 0x80, 0x02, 0x09 from 0x1FF0 down),
\* I is set, D is clear and the processor is at 00:A010, the native COP vector
CopEnteredNativeVector ==
    /\ Ran(\h02)
    /\ steps = 1
    /\ ~start.E /\ start.PBR = \h80 /\ start.P = \h09 /\ start.SP = \h1FF0
    /\ MemoryRead(Mem, \h001FF0) = \h80
    /\ MemoryRead(Mem, \h001FEF) = \h80
    /\ MemoryRead(Mem, \h001FEE) = \h02
    /\ MemoryRead(Mem, \h001FED) = \h09
    /\ registers.SP = \h1FEC
    /\ registers.P = \h05
    /\ registers.PC = \hA010 /\ registers.PBR = \h00


\* the memory operand an instruction read last, at the accumulator width of r:
\* the last bus read, or the last two (low byte first)
OperandRead(log, r) ==
    IF isMemory8Bit(r) THEN log[Len(log)][3]
    ELSE log[Len(log)][3] * \h100 + log[Len(log) - 1][3]

\* A at the accumulator width of r
AtMemoryWidth(r, value) == IF isMemory8Bit(r) THEN value % \h100 ELSE value

\* the top bit of a value at the accumulator width of r, and the bit below it
TopBit(r) == IF isMemory8Bit(r) THEN \h80 ELSE \h8000

\* p with the bit flag set to the truth value b
WithFlag(p, flag, b) == IF b THEN BitOr(p, flag) ELSE BitAnd(p, Not8(flag))

BitOpcodes == {\h89, \h24, \h2C, \h34, \h3C}

\* C31: BIT immediate (0x89) changes only the Z flag, Z = ((A & operand) = 0) at
\* memory width, and leaves N and V as they were; the other forms also copy the
\* top two bits of the memory operand into N and V; in every form A, the other
\* registers and memory are unchanged.
BitImmediateSetsOnlyZ ==
    [][(FirstStep /\ last'.arg \in BitOpcodes) =>
          /\ Len(busLog') >= 3
          /\ registers' =
                [registers EXCEPT
                    !.PC = registers'.PC,
                    !.P = IF last'.arg = \h89
                          THEN WithFlag(@, FLAG_ZERO,
                                   BitAnd(AtMemoryWidth(registers, registers.A),
                                          OperandRead(busLog', registers)) = 0)
                          ELSE WithFlag(WithFlag(WithFlag(@, FLAG_ZERO,
                                   BitAnd(AtMemoryWidth(registers, registers.A),
                                          OperandRead(busLog', registers)) = 0),
                                   FLAG_NEGATIVE,
                                   BitAnd(OperandRead(busLog', registers), TopBit(registers)) # 0),
                                   FLAG_OVERFLOW,
                                   BitAnd(OperandRead(busLog', registers),
                                          TopBit(registers) \div 2) # 0)]
          /\ wram' = wram /\ sram' = sram /\ rom' = rom]_vars

\* C31's case: BIT #$F0 was stepped with an 8-bit accumulator, A = 0x1234 and N
\* and V clear: N and V are now set from bits 7 and 6 of the immediate operand
BitImmediateSetNV ==
    /\ Ran(\h89)
    /\ steps = 1
    /\ start.P = \h30 /\ start.A = \h1234
    /\ busLog = << <<"R", \h008000, \h89>>, <<"R", \h008001, \hF0>> >>
    /\ registers = [start EXCEPT !.PC = \h8002, !.P = \hF0]


\* the operand an instruction read last: one byte if narrow, else two (low first)
LastRead(log, narrow) ==
    IF narrow THEN log[Len(log)][3]
    ELSE log[Len(log)][3] * \h100 + log[Len(log) - 1][3]

\* CMP, CPX and CPY in the forms the switch dispatches
CmpOpcodes == {\hC9, \hC5, \hD5, \hCD, \hDD, \hD9, \hC1, \hD1}
CpxOpcodes == {\hE0, \hE4, \hEC}
CpyOpcodes == {\hC0, \hC4, \hCC}

\* whether the compare opcode works on 8 bits in state r, and the register it
\* compares, at that width
CompareNarrow(opcode, r) ==
    IF opcode \in CmpOpcodes THEN isMemory8Bit(r) ELSE isIndex8Bit(r)
CompareRegister(opcode, r) ==
    With([value \in {IF opcode \in CmpOpcodes THEN r.A
                     ELSE IF opcode \in CpxOpcodes THEN r.X ELSE r.Y} |->
        IF CompareNarrow(opcode, r) THEN value % \h100 ELSE value])

\* P after comparing register reg with operand op at 8 bits (narrow) or 16 bits:
\* C = (reg >= op), Z = (reg = op), N = top bit of (reg - op) mod 2^w
ComparedP(p, reg, op, narrow) ==
    WithFlag(WithFlag(WithFlag(p, FLAG_CARRY, reg >= op), FLAG_ZERO, reg = op),
             FLAG_NEGATIVE,
             IF narrow THEN ((reg - op) % \h100) >= \h80
             ELSE ((reg - op) % \h10000) >= \h8000)

\* C32: CMP, CPX and CPY leave A, X, Y and memory unchanged and, at the width
\* selected by the M flag (CMP) or the X flag (CPX, CPY), set C = 1 exactly when
\* register >= operand (unsigned), Z = 1 exactly when they are equal, and N to
\* the top bit of (register - operand) mod 2^w; V and the other flags are
\* unchanged.
CompareSetsCZN ==
    [][(FirstStep /\ last'.arg \in CmpOpcodes \cup CpxOpcodes \cup CpyOpcodes) =>
          /\ Len(busLog') >= 2
          /\ registers' =
                [registers EXCEPT
                    !.PC = registers'.PC,
                    !.P = ComparedP(@, CompareRegister(last'.arg, registers),
                                    LastRead(busLog', CompareNarrow(last'.arg, registers)),
                                    CompareNarrow(last'.arg, registers))]
          /\ wram' = wram /\ sram' = sram /\ rom' = rom]_vars

\* C32's case: CMP #$0010 was stepped with a 16-bit accumulator holding 0x8001,
\* carry and decimal set: C stays set (0x8001 >= 0x0010 unsigned), Z is clear
\* and N is the top bit of 0x7FF1, clear; D and A are as they were
ComparedWideAccumulator ==
    /\ Ran(\hC9)
    /\ steps = 1
    /\ start.P = \h09 /\ start.A = \h8001
    /\ LastRead(busLog, FALSE) = \h0010
    /\ registers = [start EXCEPT !.PC = \h8003]


\* 2^w for the accumulator width of registers r
MemoryWidth(r) == IF isMemory8Bit(r) THEN \h100 ELSE \h10000

\* flags N and Z of a result at the accumulator width of r
WithNZ(p, r, result) ==
    WithFlag(WithFlag(p, FLAG_NEGATIVE, result >= TopBit(r)), FLAG_ZERO, result = 0)

\* registers after ADC of op on registers r, as C33 states them:
\* result (a + op + C) mod 2^w, C the carry out, V from the signs
AdcClaimed(r, op) ==
    With([a \in {r.A % MemoryWidth(r)} |->
    With([sum \in {a + op + (IF getFlag(r, FLAG_CARRY) THEN 1 ELSE 0)} |->
    With([result \in {sum % MemoryWidth(r)} |->
        [r EXCEPT
            !.A = (r.A - a) + result,
            !.P = WithNZ(WithFlag(WithFlag(@, FLAG_CARRY, sum >= MemoryWidth(r)),
                                  FLAG_OVERFLOW,
                                  BitAnd(BitAnd(BitXor(a, result), BitXor(op, result)),
                                         TopBit(r)) # 0),
                         r, result)]])])])

\* registers after SBC of op on registers r, as C33 states them:
\* result (a - op - (1 - C)) mod 2^w, C set when nothing was borrowed
SbcClaimed(r, op) ==
    With([a \in {r.A % MemoryWidth(r)} |->
    With([borrow \in {IF getFlag(r, FLAG_CARRY) THEN 0 ELSE 1} |->
    With([result \in {(a - op - borrow) % MemoryWidth(r)} |->
        [r EXCEPT
            !.A = (r.A - a) + result,
            !.P = WithNZ(WithFlag(WithFlag(@, FLAG_CARRY, a >= op + borrow),
                                  FLAG_OVERFLOW,
                                  BitAnd(BitAnd(BitXor(a, op), BitXor(a, result)),
                                         TopBit(r)) # 0),
                         r, result)]])])])

\* C33: ADC at width w (8 when M=1, 16 when M=0) sets the active bits of A to
\* r = (a + op + C) mod 2^w, C to (a + op + C >= 2^w), V to
\* ((a ^ r) & (op ^ r) & topbit) != 0 and N/Z from r; SBC sets
\* r = (a - op - (1 - C)) mod 2^w, C to 1 exactly when no borrow occurred,
\* V to ((a ^ op) & (a ^ r) & topbit) != 0 and N/Z from r, for every
\* accumulator, operand and carry-in.
AdcSbcArithmetic ==
    [][(last'.call = "step" /\ last'.arg \in {\h69, \hE9}) =>
          /\ Len(busLog') >= 2
          /\ registers' =
                [(IF last'.arg = \h69
                  THEN AdcClaimed(registers, LastRead(busLog', isMemory8Bit(registers)))
                  ELSE SbcClaimed(registers, LastRead(busLog', isMemory8Bit(registers))))
                 EXCEPT !.PC = registers'.PC]]_vars

\* C33's case: with an 8-bit accumulator holding 0x7F and carry clear, ADC #$01
\* overflowed to 0x80; SEC; SBC #$01 then gave 0x7F back with the carry set
\* (no borrow) and V set (0x80 - 1 leaves the negative range): P = 0x75
AdcSbcOverflowedBothWays ==
    /\ AluDone
    /\ ~start.E /\ start.P = \h34 /\ start.A = \h007F
    /\ AluOperand = \h01
    /\ registers.A = \h007F
    /\ registers.P = \h75


\* the instructions that write the accumulator at memory width: LDA, ADC, SBC,
\* AND, ORA, EOR in the eight addressing modes the switch knows of (immediate,
\* direct, direct X, absolute, absolute X, absolute Y, indirect X, indirect Y),
\* INC A, DEC A, ASL A, LSR A, ROL A, ROR A, PLA, TXA, TYA
AccumulatorOpcodes ==
    { base + mode : base \in {\hA0, \h60, \hE0, \h20, \h00, \h40},
                    mode \in {\h09, \h05, \h15, \h0D, \h1D, \h19, \h01, \h11} }
    \cup {\h1A, \h3A, \h0A, \h4A, \h2A, \h6A, \h68, \h8A, \h98}

\* C34: when M=1, every instruction that writes the accumulator at memory width
\* (LDA, ADC, SBC, AND, ORA, EOR, INC A, DEC A, ASL A, LSR A, ROL A, ROR A, PLA,
\* TXA, TYA) leaves the high byte of A unchanged.
NarrowAccumulatorKeepsHighByte ==
    [][(last'.call = "step" /\ last'.arg \in AccumulatorOpcodes /\ isMemory8Bit(registers)) =>
          registers'.A \div \h100 = registers.A \div \h100]_vars

\* C34's case: TXA was stepped with an 8-bit accumulator holding 0x1234 and a
\* 16-bit X holding 0x1000: the low byte of A is now 0x00, its high byte 0x12
TxaKeptHighByte ==
    /\ Ran(\h8A)
    /\ steps = 1
    /\ start.P = \h20 /\ start.A = \h1234 /\ start.X = \h1000
    /\ registers.A = \h1200


\* C35: TXS and TCS leave the whole status byte P unchanged (in particular N
\* and Z) for every register state, and change no register other than S and PC
\* (S receives all 16 bits of X or of A; memory is untouched).
StackTransfersKeepP ==
    [][(last'.call = "step" /\ last'.arg \in {\h9A, \h1B}) =>
          /\ registers' = [registers EXCEPT !.SP = registers'.SP, !.PC = registers'.PC]
          /\ registers'.SP = (IF last'.arg = \h9A THEN registers.X ELSE registers.A)
          /\ wram' = wram /\ sram' = sram /\ rom' = rom]_vars

\* C35's case: TCS was stepped with A = 0x8001 and P = 0x09 (N and Z clear):
\* S is 0x8001, a value with the top bit set, and P is still 0x09
TcsMovedNegativeValue ==
    /\ Ran(\h1B)
    /\ steps = 1
    /\ start.A = \h8001 /\ start.P = \h09 /\ start.SP = \h1FF0
    /\ registers = [start EXCEPT !.SP = \h8001, !.PC = \h8001]


\* the opcodes among Instructions that push or pull: PHA PHP BRK, PLP PLX RTI
StackOpcodes == {\h48, \h08, \h00, \h28, \hFA, \h40}

\* the bus accesses an instruction's pushes and pulls made: for BRK its writes
\* (it fetches a signature byte before and reads the vector after), for the
\* others everything after the opcode fetch
StackAccesses(opcode, log) ==
    IF opcode = \h00 THEN Writes(log) ELSE SubSeq(log, 2, Len(log))

\* C36: in emulation mode the stack wraps modulo 256 inside page 1: a one-byte
\* push at S = 0x0100 writes address 0x000100 and leaves S = 0x01FF, a one-byte
\* pull at S = 0x01FF reads address 0x000100 and leaves S = 0x0100, and every
\* bus access made by any push or pull while E=1 is to an address in
\* 0x000100-0x0001FF.
EmulationStackWraps ==
    (hostCalls = 0 /\ last.call = "step" /\ prev.E /\ last.arg \in StackOpcodes) =>
        /\ Len(busLog) >= 2
        /\ \A k \in 1..Len(StackAccesses(last.arg, busLog)) :
               StackAccesses(last.arg, busLog)[k][2] \in \h000100..\h0001FF
        /\ (last.arg \in {\h48, \h08} /\ prev.SP = \h0100) =>
               /\ busLog[2][1] = "W" /\ busLog[2][2] = \h000100
               /\ registers.SP = \h01FF
        /\ (last.arg \in {\h28, \hFA} /\ prev.SP = \h01FF) =>
               /\ busLog[2][1] = "R" /\ busLog[2][2] = \h000100
               /\ registers.SP = \h0100

\* C36's failing case: PHA was stepped in emulation mode after TCS had made
\* S = 0x0000: the byte was written to 0x000000, outside page 1
EmulationPushOutsidePageOne ==
    /\ Ran(\h48)
    /\ prev.E /\ prev.SP = \h0000
    /\ busLog = << <<"R", \h008001, \h48>>, <<"W", \h000000, \h00>> >>
    /\ registers.SP = \h01FF


\* the read-modify-write instructions on memory: INC, DEC, ASL, LSR, ROL, ROR
\* (direct, direct X, absolute, absolute X), TSB and TRB (direct, absolute)
RmwOpcodes ==
    { base + mode : base \in {\hE0, \hC0, \h00, \h40, \h20, \h60},
                    mode \in {\h06, \h16, \h0E, \h1E} }
    \cup {\h04, \h0C, \h14, \h1C}

\* the opcodes that take their data from an effective address: columns 1, 4, 5,
\* 6, C, D, E of the opcode table and the Absolute,Y column, without the block
\* moves, the jumps and the pushes of those columns; those the switch has
MemoryOpcodes ==
    { opcode \in Dispatched :
        /\ \/ opcode % 16 \in {\h1, \h4, \h5, \h6, \hC, \hD, \hE}
           \/ opcode % 32 = \h19
        /\ opcode \notin {\h44, \h54, \hD4, \hF4, \h4C, \h5C, \h6C, \h7C, \hDC, \hFC} }

\* the operand bytes that follow such an opcode: two for the absolute modes
OperandLength(opcode) ==
    IF opcode % 16 \in {\hC, \hD, \hE} \/ opcode % 32 = \h19 THEN 2 ELSE 1

\* the first 1 + n accesses of log are the reads of the instruction at bank:pc
\* and of its n operand bytes, in order, and something follows them
FetchedFirst(log, bank, pc, n) ==
    /\ Len(log) > 1 + n
    /\ \A k \in 1..(1 + n) :
          /\ log[k][1] = "R"
          /\ log[k][2] = bank * \h10000 + ((pc + k - 1) % \h10000)

\* after the first `fetched` accesses, log has `width` reads and then `width`
\* writes, and nothing else; write k is at the address of read k
ReadsThenWrites(log, fetched, width) ==
    /\ Len(log) = fetched + 2 * width
    /\ \A k \in 1..width :
          /\ log[fetched + k][1] = "R"
          /\ log[fetched + width + k][1] = "W"
          /\ log[fetched + width + k][2] = log[fetched + k][2]

\* C37: bus access ordering inside one instruction: operand bytes are fetched
\* from PBR:PC before the effective address is read, and for every
\* read-modify-write instruction on memory (INC, DEC, ASL, LSR, ROL, ROR, TSB,
\* TRB) all bus reads of the operand happen before any bus write to it, at both
\* widths.
BusAccessOrder ==
    [][(last'.call = "step" /\ last'.arg \in MemoryOpcodes) =>
          /\ FetchedFirst(busLog', registers.PBR, registers.PC, OperandLength(last'.arg))
          /\ last'.arg \in RmwOpcodes =>
                ReadsThenWrites(busLog', 1 + OperandLength(last'.arg),
                                IF isMemory8Bit(registers) THEN 1 ELSE 2)]_vars

\* C37's case: INC $7000 was stepped with a 16-bit accumulator and DBR = 0x7E:
\* opcode, operand low, operand high, then both bytes of the operand read at
\* 7E:7000 and 7E:7001, then both written
IncAbsoluteReadThenWrote ==
    /\ Ran(\hEE)
    /\ steps = 1
    /\ start.P = \h00 /\ start.DBR = \h7E
    /\ busLog = << <<"R", \h008000, \hEE>>, <<"R", \h008001, \h00>>, <<"R", \h008002, \h70>>,
                   <<"R", \h7E7000, \h00>>, <<"R", \h7E7001, \h00>>,
                   <<"W", \h7E7000, \h01>>, <<"W", \h7E7001, \h00>> >>


(***************************************************************************)
(* RomSpec: the Memory alone with cartridges of power-of-two sizes up to   *)
(* 256 KiB: the host loads images and writes bytes, in any order.          *)
(***************************************************************************)
RomSizes == {\h4, \h8000, \h10000, \h20000, \h40000}

\* the bytes that tell the places of an image apart; the rest is 0xEA
RomMarks ==
    (\h0 :> \h11) @@ (\h3 :> \h12) @@ (\h7FFF :> \h21) @@ (\h8000 :> \h22) @@
    (\hFFFF :> \h33) @@ (\h10000 :> \h41) @@ (\h18000 :> \h44) @@
    (\h1FFFF :> \h55) @@ (\h38000 :> \h66) @@ (\h3FFFF :> \h77)

\* the image of `size` bytes
PowerRom(size) ==
    [size |-> size, fill |-> ROM_FILL,
     data |-> [i \in {j \in DOMAIN RomMarks : j < size} |-> RomMarks[i]]]

\* where the host writes: work RAM, save RAM, and ROM addresses of both bank ranges
RomWriteAddresses == {\h7E0010, \h006000, \h018000, \hC18000}

RomInit ==
    /\ registers = ResetRegisters
    /\ totalCycles = 0
    /\ wram = NewWram
    /\ sram = NewSram
    /\ rom = NoRom
    /\ cycles = 0
    /\ last = Call("new", 0, 0)
    /\ prev = ResetRegisters
    /\ busLog = <<>>
    /\ start = ResetRegisters
    /\ steps = 0
    /\ calls = 0
    /\ pending = {}
    /\ memory = TRUE
    /\ hostCalls = 0

RomNext ==
    \/ \E size \in RomSizes : BusLoadROM(PowerRom(size))
    \/ \E address \in RomWriteAddresses, value \in BusValues : BusWrite(address, value)

RomSpec == RomInit /\ [][RomNext]_vars

\* addresses read back: four offsets of the ROM window and of the low half, in
\* the first two and the last bank of every bank range of getRegion
RomProbeAddresses ==
    { bank * \h10000 + offset :
        bank \in {\h00, \h01, \h3F, \h40, \h41, \h7D, \h80, \h81, \hBF, \hC0, \hC1, \hFF},
        offset \in {\h0000, \h0003, \h7FFF, \h8000, \hFFFF} }

\* C38, as amended: for a loaded ROM whose size is a power of two, a bus read
\* at any address in a ROM region returns the ROM byte at index (address mod
\* ROM size), the whole 24-bit address being masked: for sizes up to 64 KiB
\* that is (offset mod ROM size) in every bank, for larger sizes the low bits
\* of the bank select the 64 KiB part of the ROM.
RomReadMasksAddress ==
    rom.size > 0 =>
        \A address \in RomProbeAddresses :
            getRegion(address) = "REGION_ROM" =>
                /\ MemoryRead(Mem, address) = Cell(rom, address % rom.size)
                /\ rom.size <= \h10000 => address % rom.size = (address % \h10000) % rom.size
                /\ rom.size > \h10000 =>
                      address % rom.size =
                          ((address \div \h10000) % (rom.size \div \h10000)) * \h10000
                              + (address % \h10000)

\* C38: for a loaded ROM whose size is a power of two, a bus read at any
\* address in a ROM region returns the ROM byte at index (offset mod ROM size),
\* where offset is the 16-bit offset part of the 24-bit address; this holds for
\* every bank and every power-of-two ROM size, including sizes larger than
\* 64 KiB.
RomReadMasksOffset ==
    rom.size > 0 =>
        \A address \in RomProbeAddresses :
            getRegion(address) = "REGION_ROM" =>
                MemoryRead(Mem, address) = Cell(rom, (address % \h10000) % rom.size)

\* C38's case: with a ROM of 128 KiB loaded, the read at 01:8000
\* returns byte 0x18000 of the ROM (0x44), not byte 0x8000 (0x22)
LargeRomReadByBank ==
    /\ rom = PowerRom(\h20000)
    /\ getRegion(\h018000) = "REGION_ROM"
    /\ Cell(rom, \h8000) = \h22
    /\ MemoryRead(Mem, \h018000) = \h44


(***************************************************************************)
(* WordSpec: the Memory alone, with a cartridge loaded: the host calls     *)
(* write16 and reads words back.                                           *)
(***************************************************************************)
\* Memory::write16 with the high byte first
Memory_write16_BigEndian(mem, address, value) ==
    MemoryWrite(MemoryWrite(mem, address, (value \div \h100) % \h100),
                address + 1, value % \h100)

\* Memory::read16
Memory_read16(mem, address) ==
    With([lo \in {MemoryRead(mem, address)} |->
    With([hi \in {MemoryRead(mem, address + 1)} |->
        BitOr(hi * \h100, lo)])])

\* Memory::write16
Memory_write16(mem, address, value) ==
    MemoryWrite(MemoryWrite(mem, address, value % \h100),
                address + 1, (value \div \h100) % \h100)

\* the host makes at most this many write16 calls in a run
MaxWordCalls == 2

\* words inside work RAM and save RAM, words that straddle two banks or two
\* regions, the last byte of the address space, a ROM address
WordAddresses ==
    { \h000010, \h001FFF, \h006000, \h007FFF, \h7EFFFF, \h7FFFFF, \hFFFFFF, \h008000 }

WordValues == { \h1234, \hFF00, \h00A5 }

WordInit ==
    /\ registers = ResetRegisters
    /\ totalCycles = 0
    /\ wram = NewWram
    /\ sram = NewSram
    /\ rom = Cartridge(<<\h54, \h02, \h01>>)
    /\ cycles = 0
    /\ last = Call("new", 0, 0)
    /\ prev = ResetRegisters
    /\ busLog = <<>>
    /\ start = ResetRegisters
    /\ steps = 0
    /\ calls = 0
    /\ pending = {}
    /\ memory = TRUE
    /\ hostCalls = 0

WordWrite(address, value) ==
    /\ calls < MaxWordCalls
    /\ \E mem \in {Memory_write16(Mem, address, value)} :
           /\ wram' = mem.wram
           /\ sram' = mem.sram
           /\ rom' = mem.rom
    /\ last' = Call("write16", address, value)
    /\ calls' = calls + 1
    /\ UNCHANGED <<registers, totalCycles, cycles, prev, busLog, start, steps, pending, memory, hostCalls>>

WordNext == \E address \in WordAddresses, value \in WordValues : WordWrite(address, value)

WordSpec == WordInit /\ [][WordNext]_vars

\* the address is one of RAM: work RAM or save RAM
InRam(address) == getRegion(address) \in {"REGION_WRAM", "REGION_SRAM"}

\* C39: 16-bit bus access is little-endian: read16(a) returns read(a) as the low
\* byte and read(a+1) as the high byte, write16(a, v) stores the low byte of v
\* at a and the high byte at a+1, with a+1 taken modulo 2^24; so write16(a, v)
\* followed by read16(a) returns v whenever both bytes lie in RAM.  The
\* processor's read16 returns what the Memory's returns.
WordAccessLittleEndian ==
    [][last'.call = "write16" =>
          /\ Mem' = MemoryWrite(MemoryWrite(Mem, last'.arg, last'.value % \h100),
                                (last'.arg + 1) % \h1000000, last'.value \div \h100)
          /\ \A address \in WordAddresses :
                /\ Memory_read16(Mem', address) =
                       MemoryRead(Mem', (address + 1) % \h1000000) * \h100
                           + MemoryRead(Mem', address)
                /\ read16(MachineOf(registers', wram', sram', rom'), address).val =
                       Memory_read16(Mem', address)
          /\ (InRam(last'.arg) /\ InRam((last'.arg + 1) % \h1000000)) =>
                Memory_read16(Mem', last'.arg) = last'.value]_vars

\* C39's case: write16(0x7FFFFF, 0x1234) has stored 0x34 in the last byte of
\* bank 7F and 0x12 in the first byte of bank 80, both work RAM, and read16
\* returns 0x1234 there
WordStraddlesBanks ==
    /\ last = Call("write16", \h7FFFFF, \h1234)
    /\ MemoryRead(Mem, \h7FFFFF) = \h34
    /\ MemoryRead(Mem, \h800000) = \h12
    /\ Memory_read16(Mem, \h7FFFFF) = \h1234


(***************************************************************************)
(* RtiSpec: the host assigns the registers, with BRK or COP at PBR:PC and  *)
(* RTI at the address every vector holds, and calls executeInstruction.    *)
(***************************************************************************)
\* emulation mode as reset leaves it; with N, D and C set and S two bytes above
\* the bottom of page 1; with a program bank other than 0; with S = 0x0000, as
\* TCS leaves it after reset; native mode with 16-bit registers in bank 0x80;
\* with every flag but I set; with S at 0x2001, its lower bytes in work RAM
\* and its upper ones in the hardware window; with S at 0x0001, below which
\* the stack wraps to the ROM at 00:FFFF
RtiRegisters ==
    { ResetRegisters,
      [ResetRegisters EXCEPT !.P = \hBD, !.SP = \h0101, !.A = \h12FF],
      [ResetRegisters EXCEPT !.P = \h30, !.PBR = \h80],
      [ResetRegisters EXCEPT !.SP = \h0000],
      [A |-> \h1234, X |-> \h5678, Y |-> \h9ABC, SP |-> \h1FF0, PC |-> \h8000,
       P |-> \h00, DBR |-> \h7E, PBR |-> \h80, D |-> \h0010, E |-> FALSE],
      [A |-> \h1234, X |-> \h0034, Y |-> \h0056, SP |-> \h01FF, PC |-> \h8000,
       P |-> \hFB, DBR |-> \h00, PBR |-> \h00, D |-> \h0000, E |-> FALSE],
      [A |-> \h0000, X |-> \h0001, Y |-> \h0002, SP |-> \h2001, PC |-> \h8000,
       P |-> \h08, DBR |-> \h00, PBR |-> \h80, D |-> \h0000, E |-> FALSE],
      [A |-> \h0000, X |-> \h0001, Y |-> \h0002, SP |-> \h0001, PC |-> \h8000,
       P |-> \h04, DBR |-> \h00, PBR |-> \h00, D |-> \h0000, E |-> FALSE] }

\* where the BRK or COP is, and its signature byte
RtiPlaces == {\h8000, \h9000}
RtiSignatures == {\h00, \h42}

\* RTI at the handler of each vector of VectorBytes
HandlerBytes ==
    (\hA010 :> \h40) @@ (\hB020 :> \h40) @@ (\hC030 :> \h40) @@ (\hD040 :> \h40)

RtiInit ==
    /\ \E r \in RtiRegisters, opcode \in {\h00, \h02}, place \in RtiPlaces,
          signature \in RtiSignatures :
            /\ registers = [r EXCEPT !.PC = place]
            /\ rom = [size |-> ROM_SIZE, fill |-> ROM_FILL,
                      data |-> (place :> opcode) @@ ((place + 1) :> signature)
                               @@ VectorBytes @@ HandlerBytes]
    /\ totalCycles = 0
    /\ wram = NewWram
    /\ sram = NewSram
    /\ cycles = 0
    /\ last = Call("setup", 0, 0)
    /\ prev = ResetRegisters
    /\ busLog = <<>>
    /\ start = registers
    /\ steps = 0
    /\ calls = 0
    /\ pending = {}
    /\ memory = TRUE
    /\ hostCalls = 0

RtiSpec == RtiInit /\ [][Step]_vars

\* the bytes the interrupt sequence pushes from registers r lie in RAM: in
\* emulation mode the byte at S and the two page-1 bytes below it, in native
\* mode the four bytes from S downwards
StackBytesInRam(r) ==
    /\ InRam(r.SP)
    /\ \A k \in 1..(IF r.E THEN 2 ELSE 3) :
          InRam(IF r.E THEN \h0100 + ((r.SP - k) % \h100) ELSE (r.SP - k) % \h10000)

\* an RTI is being stepped right after the step of a BRK or COP
RtiAfterInterrupt ==
    /\ last.call = "step" /\ last.arg \in {\h00, \h02}
    /\ last'.call = "step" /\ last'.arg = \h40

\* C40's failing case: in emulation mode with S = 0x0000 and PBR = 0, BRK at
\* 00:8000 pushed the high byte of the return address at 0x000000 and the
\* rest at 0x0001FF and 0x0001FE, every one of them in work RAM; the RTI
\* pulled from 0x0001FE, 0x0001FF and 0x000100: the processor is at 0x0002
\* with S = 0x0100
EmulationBrkLostReturn ==
    /\ Ran(\h40)
    /\ steps = 2
    /\ start.E /\ start.SP = \h0000 /\ start.PBR = \h00 /\ start.PC = \h8000
    /\ StackBytesInRam(start)
    /\ MemoryRead(Mem, \h000000) = \h80 /\ MemoryRead(Mem, \h0001FF) = \h02
    /\ registers.PC = \h0002 /\ registers.SP = \h0100

\* C40: a BRK or COP fetched at address p followed immediately by an RTI
\* executed at the handler address returns to PC = p + 2 and restores S, P and
\* PBR to the values they had before the BRK/COP, in both emulation and native
\* mode, provided the stack bytes used lie in RAM.
InterruptRoundTripRestoresBank ==
    [][(RtiAfterInterrupt /\ StackBytesInRam(prev)) =>
          /\ registers'.PC = (prev.PC + 2) % \h10000
          /\ registers'.SP = prev.SP
          /\ registers'.P = prev.P
          /\ registers'.PBR = prev.PBR]_vars


====
